---- MODULE Spec2Model ----
(***************************************************************************)
(* Discovery & Dispatch core of the Pineapple pipeline listener            *)
(* (PineappleListener.py, PluginManager.py, unrealServer.py, scripts/*.py).*)
(*                                                                         *)
(* The specifications share the registry and the handlers' definitions:    *)
(*   Spec         the command bus: every _notify_command is a fan-out frame *)
(*                on the publishing thread's call stack, one subscriber     *)
(*                call per step, so threads interleave between subscriber   *)
(*                calls and a subscriber's own publish nests;               *)
(*   SpecHealth   the health engine on a clock of seconds: probe worker,    *)
(*                timeout worker (its read and its writes are separate      *)
(*                steps), health_response handler, DNS resolution;          *)
(*   SpecRestart  the timeout engine of a silent device across restart(),   *)
(*                whose old worker threads may keep running;                *)
(*   SpecRegistry the registry's field writes one store at a time: DNS      *)
(*                loop, mDNS handler and restart() running concurrently;    *)
(*   SpecDispatch one whole event per step (publish with its fan-out and    *)
(*                the replies it causes, adapter reply, checkbox toggle,    *)
(*                DNS tick, mDNS announce), recording what each adapter     *)
(*                received;                                                 *)
(*   SpecDiscovery one whole discovery event per step: DNS tick, mDNS       *)
(*                Added/Updated and Removed, host going offline, sweep;    *)
(*   SpecCalls    one call of a pure function per behaviour: the mDNS name *)
(*                matcher, the startup of the checked flags;               *)
(*   SpecAdapter  one adapter job step by step: handle_message, connect,   *)
(*                send, receive, pump (SpecAdapterLive adds its progress); *)
(*   SpecRestartSteps, SpecLoops, SpecShutdown  restart() and shutdown()   *)
(*                one statement group at a time beside the worker loops,   *)
(*                each loop an object of its own generation;               *)
(*   SpecIngress  the HTTP and WebSocket entry points parsing a body;      *)
(*   SpecTimeout  the timeout worker's publish, dispatched to the adapters;*)
(*   SpecForward  posted commands carrying the dispatcher's own keys, the  *)
(*                enriched copies kept as objects apart from the command;  *)
(*   SpecProbe    the probe loop one device per step beside DNS, mDNS and  *)
(*                the check boxes;                                         *)
(*   SpecPump     an adapter's receive pump on the event loop's clock;     *)
(*   SpecBridge   one call of the upstream bridge's handle_message.        *)
(***************************************************************************)
EXTENDS Integers, Sequences, FiniteSets, TLC

(***************************************************************************)
(* Values.  A Python string is kept as the sequence of its ':'-separated    *)
(* segments where the code splits it (ip, endpoint); scalars are strings.   *)
(***************************************************************************)
None == "<None>"
NoAddr == << >>
JTrue == "true"
JFalse == "false"

\* bool(x) of a scalar command field (None, false and '' are falsy).
PyBool(v) == v \notin {None, JFalse, ""}

\* truth value of an address string or None.
AddrTruthy(a) == a # NoAddr /\ a # <<"">>

(***************************************************************************)
(* Configuration: config.yaml's devices, in file order.                    *)
(***************************************************************************)
expected ==
  << [attached_name |-> "A", hostname |-> "a.local", subname |-> "a-sub.local",
      script |-> "example"],
     [attached_name |-> "B", hostname |-> "B", subname |-> "",
      script |-> "ws"] >>

DeviceIdx == 1..Len(expected)
Devices == {expected[i].attached_name : i \in DeviceIdx}
ConfigOf(d) == expected[CHOOSE i \in DeviceIdx : expected[i].attached_name = d]

Ip1 == <<"10.0.0.5">>
Ip2 == <<"10.0.0.6">>
SubIp1 == <<"10.0.1.5">>
Port1 == "5000"
WsPort == "8766"

\* bounds of the model: top-level publishes in Spec, seconds in SpecHealth
MaxPub == 2
MaxTime == 5
MaxRestarts == 1

\* the health engine's periods, in seconds
HealthInterval == 2
Grace == 1
TickPeriod == HealthInterval \div 2
\* time.time() at start(): seconds since the epoch, beyond every deadline
T0 == 2 * (HealthInterval + Grace)

VARIABLES
  device_states,          \* registry: name -> ip, port, resolved, reachable, checked, sub_ip
  last_health_response,   \* self._last_health_response
  command_subscribers,    \* self._command_subscribers
  device_vars,            \* ui.device_vars: the check boxes
  last_filename,          \* module global of the replay
  zc_services,            \* self._zc_services: key -> the zeroconf command
  now,                    \* time.time()
  stack,                  \* per thread: the _notify_command frames in progress
  pubs,                   \* history: the _notify_command calls in call order (id = position)
  seen,                   \* history: per subscriber, the publishes it was called with
  completed,              \* history: the fan-out the last step finished
  adapter_log,            \* history: the messages the last step passed to handle_message
  wpc,                    \* per timeout worker: position in _health_timeout_loop
  wake,                   \* per timeout worker: time.time() at which its sleep ends
  tnow,                   \* per timeout worker: its local now
  tlast,                  \* per timeout worker: its local last
  tdev,                   \* per timeout worker: index of the device being visited
  pdev,                   \* probe worker: index of the device being visited
  pwake,                  \* probe worker: time.time() at which its sleep ends
  rpc,                    \* position in _on_internal_command
  rcmd,                   \* the health_response _on_internal_command is handling
  probes,                 \* history: per device, time of the unanswered health probe (0: none)
  timeouts,               \* history: per device, number and time of its health_timeouts
  verdict,                \* history: per device, the latest of response true/false, timeout
  since,                  \* history: per device, time it became resolved (0: unresolved)
  behaved,                \* history: per device, every probe was answered true within 1 s
  fpc,                    \* positions of the threads that write registry fields one by one
  ev,                     \* history: what the last whole event published and delivered
  call,                   \* history: the last call of a function, its arguments and result
  job,                    \* an adapter's coroutine: its command, position and publications
  life                    \* self._running, the position in restart(), the loop threads

regVars == <<device_states, last_health_response, command_subscribers, device_vars,
             last_filename, zc_services, now>>
busVars == <<stack, pubs, seen, completed, adapter_log>>
loopVars == <<wpc, wake, tnow, tlast, tdev, pdev, pwake, rpc, rcmd, probes, timeouts,
              verdict, since, behaved, fpc, ev, call, job, life>>
vars == <<regVars, busVars, loopVars>>

(***************************************************************************)
(* Commands: the dicts on the bus, with every key the model reads; None     *)
(* stands for a missing key.                                                *)
(***************************************************************************)
Cmd(type, device, value) ==
  [type |-> type, device |-> device, value |-> value, name |-> None,
   ip |-> NoAddr, port |-> None]

DiscoveryCmd(type, name, ip, port) ==
  [type |-> type, device |-> None, value |-> None, name |-> name,
   ip |-> ip, port |-> port]

DiscoveryTypes == {"zeroconf", "zeroconf_removed", "dns", "dns_sub"}
BroadcastTypes == {"recordStart", "recordStop", "fileName"}
HealthTypes == {"health", "health_response", "health_timeout"}

(***************************************************************************)
(* Strings the code formats and splits.                                    *)
(***************************************************************************)
\* str(x) for an address or None, as f"{ip}:{port}" prints it
AddrStr(a) == IF a = NoAddr THEN <<"None">> ELSE a
PortStr(p) == IF p = None THEN "None" ELSE p

\* f"{ip}:{port}"
FormatEndpoint(ip, port) == AddrStr(ip) \o <<PortStr(port)>>

\* truth value of a port (None and '' are falsy; the string "None" is not)
PortTruthy(p) == p \notin {None, ""}

(***************************************************************************)
(* DiscoveryService._on_internal_command                                    *)
(***************************************************************************)
\* the guard: the type is health_response and device_states.get(dev) is a state
InternalApplies(cmd) == cmd.type = "health_response" /\ cmd.device \in Devices

\* line 337: state['reachable'] = bool(cmd.get('value', False)), and the
\* mutant that drops the value
InternalReachableDown(cmd) == FALSE
InternalReachable(cmd) == PyBool(cmd.value)

\* line 338: self._last_health_response[dev] = time.time()
InternalLast(cmd, t) == t

OnInternalCommand(cmd, st, last, t) ==
  IF InternalApplies(cmd)
  THEN [st |-> [st EXCEPT ![cmd.device].reachable = InternalReachable(cmd)],
        last |-> [last EXCEPT ![cmd.device] = InternalLast(cmd, t)]]
  ELSE [st |-> st, last |-> last]

(***************************************************************************)
(* StyledDiscoveryUI._on_command_event: touches no registry state; raises   *)
(* KeyError on cmd["device"] (health types) and cmd['value'] (fileName).    *)
(***************************************************************************)
UiCommandRaises(cmd) ==
  \/ cmd.type \in HealthTypes /\ cmd.device = None
  \/ cmd.type = "fileName" /\ cmd.value = None

(***************************************************************************)
(* remember_filename                                                        *)
(***************************************************************************)
RememberFilename(cmd, old) == IF cmd.type = "fileName" THEN cmd.value ELSE old

(***************************************************************************)
(* PluginManager: the reply callback and handle                             *)
(***************************************************************************)
\* lambda msg, n=name: send_response({'device': n, **msg}): a 'device' key of
\* msg comes after n in the dict display and wins.
ReplyCmd(n, msg) == [msg EXCEPT !.device = IF msg.device # None THEN msg.device ELSE n]

\* example.handle_message: a health message with ip not None is answered
\* through the reply callback before handle_message returns.
ExampleReplies(msg) == msg.type = "health" /\ msg.ip # NoAddr

ExampleReply(d) == ReplyCmd(d, Cmd("health_response", ConfigOf(d).attached_name, JTrue))

\* the adapters that answer inside handle_message (scripts/example.py); the
\* websocket adapters answer from their own loop thread.
SyncReply(d, msg) == ConfigOf(d).script = "example" /\ ExampleReplies(msg)

\* PluginManager.handle: the except branch calls self._send_response, which
\* __init__ never sets, so an adapter's exception leaves handle as an
\* AttributeError.
HandleSwallows(adapterRaised) == FALSE
HandleRaises(adapterRaised) == adapterRaised

\* the message handle passes on: msg['subname'] is added when configured
AdapterMsg(d, cmd, st, via, id) ==
  [adapter |-> d, type |-> cmd.type, device |-> cmd.device, value |-> cmd.value,
   ip |-> st.ip, port |-> st.port, sub_ip |-> st.sub_ip,
   subname |-> ConfigOf(d).subname, via |-> via, id |-> id]

(***************************************************************************)
(* _dispatch_to_plugins                                                     *)
(***************************************************************************)
\* step 1: ignore purely discovery-side events
DispatchDropsNone(cmd) == FALSE
DispatchDrops(cmd) == cmd.type \in DiscoveryTypes

\* the gate of both paths: check box ticked, ip and port truthy
Eligible(d, st, dvars) == dvars[d] /\ AddrTruthy(st[d].ip) /\ PortTruthy(st[d].port)

\* step 3: cmd["device"], falling back to cmd["value"] for health_timeout
Target(cmd) ==
  IF cmd.device = None /\ cmd.type = "health_timeout" THEN cmd.value ELSE cmd.device

TargetDelivers(cmd, st, dvars) ==
  /\ Target(cmd) # None
  /\ Target(cmd) \in Devices
  /\ Eligible(Target(cmd), st, dvars)

\* the devices a broadcast reaches, in ui.device_vars order (config order),
\* when the adapter of the device at position stop raises (0: none raises)
RECURSIVE BroadcastOrder(_, _, _)
BroadcastOrder(i, st, dvars) ==
  IF i > Len(expected) THEN << >>
  ELSE LET d == expected[i].attached_name
       IN (IF Eligible(d, st, dvars) THEN <<d>> ELSE << >>)
            \o BroadcastOrder(i + 1, st, dvars)

(***************************************************************************)
(* Device events: _notify_device calls _on_device_event (registered by the  *)
(* UI's constructor), then resend_on_connect; both run on the notifying     *)
(* thread and their exceptions are swallowed.                               *)
(***************************************************************************)
\* StyledDiscoveryUI._on_device_event: it writes the registry's ip and port
\* from the pieces of the endpoint string.
OnDeviceEvent(st, name, ep) ==
  IF AddrTruthy(ep)
  THEN [st EXCEPT ![name].ip = <<ep[1]>>,
                  ![name].port = IF Len(ep) > 1 THEN ep[2] ELSE "None"]
  ELSE st

\* resend_on_connect
ResendSkips(ep, fname) == ~AddrTruthy(ep) \/ ~PyBool(fname)
ResendUnpackRaises(ep) == Len(ep) > 2
ResendMsg(name, ep, fname, st) ==
  [adapter |-> name, type |-> "fileName", device |-> name, value |-> fname,
   ip |-> IF Len(ep) > 1 THEN <<ep[1]>> ELSE ep,
   port |-> IF Len(ep) > 1 THEN ep[2] ELSE WsPort,
   sub_ip |-> st[name].sub_ip, subname |-> ConfigOf(name).subname,
   via |-> "replay", id |-> 0]

ResendOnConnect(name, ep, fname, st) ==
  IF ResendSkips(ep, fname) \/ ResendUnpackRaises(ep)
  THEN {}
  ELSE {ResendMsg(name, ep, fname, st)}

\* DiscoveryService._notify_device: the registry and the adapter messages after
\* both subscribers ran
NotifyDevice(st, name, ep, fname) ==
  LET st1 == OnDeviceEvent(st, name, ep)
  IN [st |-> st1, msgs |-> ResendOnConnect(name, ep, fname, st1)]

(***************************************************************************)
(* DNS loop body for one device (lines 108-139), one resolution outcome.    *)
(***************************************************************************)
DnsChanged(st, name, ip) == ~st[name].resolved \/ st[name].ip # ip

DnsEndpoint(st, name, ip) ==
  IF PortTruthy(st[name].port) THEN FormatEndpoint(ip, st[name].port) ELSE ip

DnsResolved(st, name, ip) ==
  [st EXCEPT ![name].resolved = TRUE, ![name].ip = ip, ![name].reachable = FALSE]

DnsFailed(st, name) == [st EXCEPT ![name].resolved = FALSE]

(***************************************************************************)
(* mDNS: _check_zc_in_devices on names kept as token sequences.             *)
(***************************************************************************)
StartsWith(s, p) == Len(s) >= Len(p) /\ SubSeq(s, 1, Len(p)) = p

RECURSIVE CheckZcFrom(_, _)
CheckZcFrom(i, svc) ==
  IF i > Len(expected) THEN None
  ELSE IF StartsWith(svc, <<expected[i].attached_name>>) THEN expected[i].attached_name
  ELSE IF StartsWith(svc, <<expected[i].hostname>>) THEN expected[i].attached_name
  ELSE CheckZcFrom(i + 1, svc)

CheckZcInDevices(svc) == CheckZcFrom(1, svc)

\* _on_zc_state_change lines 183-187, then _zc_service_to_device lines 243-250
ZcApplied(st, dev, addr, port) ==
  [st EXCEPT ![dev].ip = addr, ![dev].port = port, ![dev].resolved = TRUE,
             ![dev].checked = TRUE]

(***************************************************************************)
(* Initial state: after __init__, the UI constructor, _on_check_toggle(None)*)
(* and start(), and the two subscribe_commands calls of the main script.    *)
(***************************************************************************)
InitialDevice ==
  [ip |-> NoAddr, port |-> None, resolved |-> FALSE, reachable |-> FALSE,
   checked |-> TRUE, sub_ip |-> NoAddr]

Subscribers ==
  <<"_on_command_event", "_on_internal_command", "_dispatch_to_plugins",
    "remember_filename">>

Threads == {"http", "probe", "dns", "zc"}

InitRegistry ==
  /\ device_states = [d \in Devices |-> InitialDevice]
  /\ last_health_response = [d \in Devices |-> 0]
  /\ command_subscribers = Subscribers
  /\ device_vars = [d \in Devices |-> TRUE]
  /\ last_filename = ""
  /\ zc_services = {}
  /\ now = T0

InitBus ==
  /\ stack = [w \in Threads |-> << >>]
  /\ pubs = << >>
  /\ seen = [cb \in {Subscribers[i] : i \in 1..Len(Subscribers)} |-> {}]
  /\ completed = {}
  /\ adapter_log = {}

\* the threads that can run _health_timeout_loop: the one start() creates,
\* and one more per restart()
TimeoutWorkers == 1..(MaxRestarts + 1)

NoCmd == Cmd(None, None, None)

\* nothing has been published, announced or reported yet; the fields are
\*   cmds      the commands the last event published, in order
\*   devs      the device events the last event emitted, in order
\*   raised    the adapters whose handle_message raised in the last event
\*   replier   the adapter whose reply callback published in the last event
\*   browser   the service the browser reported Removed in the last event
\*   swept     the last event was a pass of the TCP-probe sweeper
\*   endpoint  per device, the endpoint of its latest device event
\*   reported  per device, resolved and ip at its latest device event
\*   down      per device, DNS reported a failure and has not succeeded since
\*   announced the services published in a zeroconf command and not removed
\*   dead      the announced services none of whose addresses accepts TCP
NoReport == [resolved |-> FALSE, ip |-> <<"unreported">>]

NoEvents ==
  [cmds |-> << >>, devs |-> << >>, raised |-> {}, replier |-> None, browser |-> << >>,
   swept |-> FALSE,
   endpoint |-> [d \in Devices |-> NoAddr],
   reported |-> [d \in Devices |-> NoReport],
   down |-> [d \in Devices |-> FALSE],
   announced |-> {}, dead |-> {}]

\* no function was called yet
NoCall == [fn |-> None]

\* no coroutine was scheduled yet
NoJob == [pc |-> "idle"]

\* the loops start() runs in threads of their own
LoopKinds == {"resolver", "sweeper", "probe", "timeout"}

\* after start(): running, no restart() in progress, the browser open, one
\* thread per loop (a loop thread is off, sleep, body or exited)
Started ==
  [running |-> TRUE, rs |-> 0, closed |-> FALSE, zc_open |-> TRUE,
   loop |-> [k \in LoopKinds |-> [g \in TimeoutWorkers |-> IF g = 1 THEN "sleep" ELSE "off"]]]

\* no thread is between two field writes
FieldIdle == [dns |-> "idle", ddev |-> None, dip |-> NoAddr, zc |-> "idle", rs |-> 0]

InitLoops ==
  /\ wpc = [w \in TimeoutWorkers |-> IF w = 1 THEN "sleep" ELSE "off"]
  /\ wake = [w \in TimeoutWorkers |-> T0]
  /\ tnow = [w \in TimeoutWorkers |-> T0]
  /\ tlast = [w \in TimeoutWorkers |-> 0]
  /\ tdev = [w \in TimeoutWorkers |-> 1]
  /\ pdev = 1
  /\ pwake = T0
  /\ rpc = "idle"
  /\ rcmd = NoCmd
  /\ probes = [d \in Devices |-> 0]
  /\ timeouts = [d \in Devices |-> [n |-> 0, at |-> 0]]
  /\ verdict = [d \in Devices |-> "none"]
  /\ since = [d \in Devices |-> 0]
  /\ behaved = [d \in Devices |-> TRUE]
  /\ fpc = FieldIdle
  /\ ev = NoEvents
  /\ call = NoCall
  /\ job = NoJob
  /\ life = Started

Init == InitRegistry /\ InitBus /\ InitLoops

(***************************************************************************)
(* The command bus.  _notify_command copies the subscriber list and calls   *)
(* each callback inside try/except Exception.                               *)
(***************************************************************************)
Frame(id, cmd, subs) ==
  [id |-> id, cmd |-> cmd, subs |-> subs, idx |-> 1, busy |-> FALSE,
   invoked |-> << >>, raised |-> {}]

\* completed and adapter_log hold what the step just taken finished and
\* delivered; every other step clears them
NoFanoutDone == completed' = {}
NoDelivery == adapter_log' = {}

Idle(w) == stack[w] = << >>
Top(w) == stack[w][Len(stack[w])]
ParentId(stk) == IF stk = << >> THEN 0 ELSE stk[Len(stk)].id

\* where the for loop of _notify_command goes after a callback returned or
\* raised: the except clause swallows the exception and the loop goes on
NextIndexAbort(f, raised) == IF raised THEN Len(f.subs) + 1 ELSE f.idx + 1
NextIndex(f, raised) == f.idx + 1

\* the frame after subscriber cb was called and returned or raised
Called(f, raised) ==
  [f EXCEPT !.idx = NextIndex(f, raised),
            !.invoked = Append(@, f.subs[f.idx]),
            !.raised = IF raised THEN @ \cup {f.subs[f.idx]} ELSE @]

\* thread w enters _notify_command(cmd) with call stack stk
Enter(w, cmd, stk) ==
  /\ pubs' = Append(pubs, [by |-> w, parent |-> ParentId(stk)])
  /\ stack' = [stack EXCEPT
                 ![w] = Append(stk, Frame(Len(pubs) + 1, cmd, command_subscribers))]

\* the callback at the top frame returned (raised or not) without publishing
Returned(w, raised) ==
  /\ stack' = [stack EXCEPT ![w][Len(stack[w])] = Called(Top(w), raised)]
  /\ pubs' = pubs

\* the callback at the top frame publishes cmd before it returns
Reenter(w, cmd) ==
  Enter(w, cmd, [stack[w] EXCEPT ![Len(stack[w])].busy = TRUE])

CanCall(w, cb) ==
  /\ ~Idle(w)
  /\ ~Top(w).busy
  /\ Top(w).idx <= Len(Top(w).subs)
  /\ Top(w).subs[Top(w).idx] = cb

Observe(w, cb) == seen' = [seen EXCEPT ![cb] = @ \cup {Top(w).id}]

\* StyledDiscoveryUI._on_command_event
CallUi(w) ==
  /\ CanCall(w, "_on_command_event")
  /\ Observe(w, "_on_command_event")
  /\ Returned(w, UiCommandRaises(Top(w).cmd))
  /\ NoFanoutDone /\ NoDelivery
  /\ UNCHANGED <<regVars, loopVars>>

\* DiscoveryService._on_internal_command
CallInternal(w) ==
  /\ CanCall(w, "_on_internal_command")
  /\ Observe(w, "_on_internal_command")
  /\ LET r == OnInternalCommand(Top(w).cmd, device_states, last_health_response, now)
     IN /\ device_states' = r.st
        /\ last_health_response' = r.last
  /\ Returned(w, FALSE)
  /\ UNCHANGED <<command_subscribers, device_vars, last_filename, zc_services, now,
                 loopVars>>
  /\ NoFanoutDone /\ NoDelivery

\* remember_filename
CallRemember(w) ==
  /\ CanCall(w, "remember_filename")
  /\ Observe(w, "remember_filename")
  /\ last_filename' = RememberFilename(Top(w).cmd, last_filename)
  /\ Returned(w, FALSE)
  /\ UNCHANGED <<device_states, last_health_response, command_subscribers, device_vars,
                 zc_services, now, loopVars>>
  /\ NoFanoutDone /\ NoDelivery

\* _dispatch_to_plugins, step 1: a discovery-side event is ignored
CallDispatchIgnore(w) ==
  /\ CanCall(w, "_dispatch_to_plugins")
  /\ DispatchDrops(Top(w).cmd)
  /\ Observe(w, "_dispatch_to_plugins")
  /\ Returned(w, FALSE)
  /\ NoFanoutDone /\ NoDelivery
  /\ UNCHANGED <<regVars, loopVars>>

\* step 2: a broadcast goes to every eligible device in turn; handle is not
\* inside a try here, so the first adapter that raises ends the loop and the
\* exception reaches _notify_command
CallDispatchBroadcast(w) ==
  /\ CanCall(w, "_dispatch_to_plugins")
  /\ ~DispatchDrops(Top(w).cmd)
  /\ Top(w).cmd.type \in BroadcastTypes
  /\ Observe(w, "_dispatch_to_plugins")
  /\ LET order == BroadcastOrder(1, device_states, device_vars)
     IN \E stop \in 0..Len(order) :
          LET reached == IF stop = 0 THEN Len(order) ELSE stop
          IN /\ adapter_log' =
                  {AdapterMsg(order[i], Top(w).cmd, device_states[order[i]],
                              "broadcast", Top(w).id) : i \in 1..reached}
             /\ Returned(w, HandleRaises(stop > 0))
  /\ NoFanoutDone
  /\ UNCHANGED <<regVars, loopVars>>

\* step 3, the returns before handle: no target, unknown target, box not
\* ticked, no ip or no port
CallDispatchNoTarget(w) ==
  /\ CanCall(w, "_dispatch_to_plugins")
  /\ ~DispatchDrops(Top(w).cmd)
  /\ Top(w).cmd.type \notin BroadcastTypes
  /\ ~TargetDelivers(Top(w).cmd, device_states, device_vars)
  /\ Observe(w, "_dispatch_to_plugins")
  /\ Returned(w, FALSE)
  /\ NoFanoutDone /\ NoDelivery
  /\ UNCHANGED <<regVars, loopVars>>

\* step 3, the delivery: handle(target, enriched) inside try/except; an
\* adapter that answers inside handle_message publishes from this call, and
\* the except branch publishes the negative health_response
CallDispatchTarget(w) ==
  /\ CanCall(w, "_dispatch_to_plugins")
  /\ ~DispatchDrops(Top(w).cmd)
  /\ Top(w).cmd.type \notin BroadcastTypes
  /\ TargetDelivers(Top(w).cmd, device_states, device_vars)
  /\ Observe(w, "_dispatch_to_plugins")
  /\ LET d == Target(Top(w).cmd)
         msg == AdapterMsg(d, Top(w).cmd, device_states[d], "target", Top(w).id)
     IN /\ adapter_log' = {msg}
        /\ \E adapterRaised \in BOOLEAN :
             IF HandleRaises(adapterRaised)
             THEN IF msg.type \in {"health", "health_timeout"}
                  THEN Reenter(w, Cmd("health_response", d, JFalse))
                  ELSE Returned(w, FALSE)
             ELSE IF ~adapterRaised /\ SyncReply(d, msg)
                  THEN Reenter(w, ExampleReply(d))
                  ELSE Returned(w, FALSE)
  /\ NoFanoutDone
  /\ UNCHANGED <<regVars, loopVars>>

\* the for loop of _notify_command is exhausted: the call returns to the
\* callback that published (whose own call then ends) or to the thread
FanoutDone(w) ==
  /\ ~Idle(w)
  /\ ~Top(w).busy
  /\ Top(w).idx > Len(Top(w).subs)
  /\ completed' =
       {[id |-> Top(w).id, subs |-> Top(w).subs, invoked |-> Top(w).invoked,
         raised |-> Top(w).raised]}
  /\ LET rest == SubSeq(stack[w], 1, Len(stack[w]) - 1)
     IN stack' = [stack EXCEPT
          ![w] = IF rest = << >> THEN rest
                 ELSE [rest EXCEPT
                         ![Len(rest)] = Called([rest[Len(rest)] EXCEPT !.busy = FALSE],
                                                FALSE)]]
  /\ NoDelivery
  /\ UNCHANGED <<regVars, pubs, seen, loopVars>>

(***************************************************************************)
(* The publishing threads of Spec.                                          *)
(***************************************************************************)
\* what the HTTP ingress is sent: targeted, broadcast, unknown and
\* discovery-typed commands, with and without a device
HttpCommands ==
  { Cmd("health", "A", None),
    Cmd("health_response", "X", JTrue),
    Cmd("fileName", None, "take_01"),
    Cmd("dns", "A", None),
    Cmd("health_timeout", None, "B") }

\* Handler.do_POST: json.loads, then _notify_command
HttpPost(cmd) ==
  /\ Idle("http")
  /\ Len(pubs) < MaxPub
  /\ Enter("http", cmd, stack["http"])
  /\ NoFanoutDone /\ NoDelivery
  /\ UNCHANGED <<regVars, seen, loopVars>>

\* _health_loop, one device of the for loop
ProbeEligibleResolved(st) == st.resolved /\ st.checked
ProbeEligible(st) == AddrTruthy(st.ip) /\ st.checked

ProbeSend ==
  /\ Idle("probe")
  /\ pdev <= Len(expected)
  /\ ProbeEligible(device_states[expected[pdev].attached_name])
  /\ Len(pubs) < MaxPub
  /\ Enter("probe", Cmd("health", expected[pdev].attached_name, None), stack["probe"])
  /\ pdev' = pdev + 1
  /\ NoFanoutDone /\ NoDelivery
  /\ UNCHANGED <<regVars, seen, wpc, wake, tnow, tlast, tdev, pwake, rpc, rcmd, probes,
                 timeouts, verdict, since, behaved, fpc, ev, call, job, life>>

ProbeSkip ==
  /\ Idle("probe")
  /\ pdev <= Len(expected)
  /\ ~ProbeEligible(device_states[expected[pdev].attached_name])
  /\ pdev' = pdev + 1
  /\ NoFanoutDone /\ NoDelivery
  /\ UNCHANGED <<regVars, stack, pubs, seen, wpc, wake, tnow, tlast, tdev, pwake, rpc,
                 rcmd, probes, timeouts, verdict, since, behaved, fpc, ev, call, job, life>>

\* time.sleep(self._health_interval), then the next round
ProbeSleep ==
  /\ Idle("probe")
  /\ pdev > Len(expected)
  /\ pdev' = 1
  /\ NoFanoutDone /\ NoDelivery
  /\ UNCHANGED <<regVars, stack, pubs, seen, wpc, wake, tnow, tlast, tdev, pwake, rpc,
                 rcmd, probes, timeouts, verdict, since, behaved, fpc, ev, call, job, life>>

\* what the resolver and the mDNS browser can report
DnsAddrs == {Ip1}
SvcA == <<"A", "._mocap._tcp.local.">>
SvcX == <<"X", "._mocap._tcp.local.">>
ZcNames == {SvcA, SvcX}

\* _dns_poll_loop, one device, gethostbyname returned ip and the state changed:
\* registry writes, device event, then the dns command
DnsUp(d, ip) ==
  /\ Idle("dns")
  /\ Len(pubs) < MaxPub
  /\ DnsChanged(device_states, d, ip)
  /\ LET st1 == DnsResolved(device_states, d, ip)
         r == NotifyDevice(st1, d, DnsEndpoint(st1, d, ip), last_filename)
     IN /\ device_states' = r.st
        /\ adapter_log' = r.msgs
  /\ Enter("dns", DiscoveryCmd("dns", d, ip, None), stack["dns"])
  /\ UNCHANGED <<last_health_response, command_subscribers, device_vars, last_filename,
                 zc_services, now, seen, loopVars>>
  /\ NoFanoutDone

\* gethostbyname raised gaierror while the device was resolved
DnsDown(d) ==
  /\ Idle("dns")
  /\ Len(pubs) < MaxPub
  /\ device_states[d].resolved
  /\ LET st1 == DnsFailed(device_states, d)
         r == NotifyDevice(st1, d, NoAddr, last_filename)
     IN /\ device_states' = r.st
        /\ adapter_log' = r.msgs
  /\ Enter("dns", DiscoveryCmd("dns", d, NoAddr, None), stack["dns"])
  /\ UNCHANGED <<last_health_response, command_subscribers, device_vars, last_filename,
                 zc_services, now, seen, loopVars>>
  /\ NoFanoutDone

\* the sub-device of the device resolved to a new address
DnsSub(d, ip) ==
  /\ Idle("dns")
  /\ Len(pubs) < MaxPub
  /\ ConfigOf(d).subname # ""
  /\ ip # device_states[d].sub_ip
  /\ device_states' = [device_states EXCEPT ![d].sub_ip = ip]
  /\ Enter("dns", DiscoveryCmd("dns_sub", d, ip, None), stack["dns"])
  /\ UNCHANGED <<last_health_response, command_subscribers, device_vars, last_filename,
                 zc_services, now, seen, loopVars>>
  /\ NoFanoutDone /\ NoDelivery

\* _on_zc_state_change, Added or Updated, with service info: the matched
\* device's registry writes, _zc_services, the device event, the command
ZcKey(svc) == CheckZcInDevices(svc)

ZcAdded(svc, addr, port) ==
  /\ Idle("zc")
  /\ Len(pubs) < MaxPub
  /\ LET dev == CheckZcInDevices(svc)
         cmd == DiscoveryCmd("zeroconf", svc, addr, port)
     IN /\ IF dev # None
           THEN LET st1 == ZcApplied(device_states, dev, addr, port)
                    r == NotifyDevice(st1, dev, FormatEndpoint(st1[dev].ip, st1[dev].port),
                                      last_filename)
                IN /\ device_states' = r.st
                   /\ adapter_log' = r.msgs
           ELSE device_states' = device_states /\ adapter_log' = {}
        /\ zc_services' = {e \in zc_services : e.key # ZcKey(svc)}
                            \cup {[key |-> ZcKey(svc), cmd |-> cmd]}
        /\ Enter("zc", cmd, stack["zc"])
  /\ UNCHANGED <<last_health_response, command_subscribers, device_vars, last_filename,
                 now, seen, loopVars>>
  /\ NoFanoutDone

Next ==
  \/ \E cmd \in HttpCommands : HttpPost(cmd)
  \/ ProbeSend
  \/ ProbeSkip
  \/ ProbeSleep
  \/ \E d \in Devices, ip \in DnsAddrs : DnsUp(d, ip)
  \/ \E d \in Devices : DnsDown(d)
  \/ \E d \in Devices : DnsSub(d, SubIp1)
  \/ \E svc \in ZcNames : ZcAdded(svc, Ip1, Port1)
  \/ \E w \in Threads : CallUi(w)
  \/ \E w \in Threads : CallInternal(w)
  \/ \E w \in Threads : CallDispatchIgnore(w)
  \/ \E w \in Threads : CallDispatchBroadcast(w)
  \/ \E w \in Threads : CallDispatchNoTarget(w)
  \/ \E w \in Threads : CallDispatchTarget(w)
  \/ \E w \in Threads : CallRemember(w)
  \/ \E w \in Threads : FanoutDone(w)

Spec == Init /\ [][Next]_vars

(***************************************************************************)
(* Properties of the command bus, checked under Spec.                       *)
(***************************************************************************)
SubscriberNames == DOMAIN seen

\* C1: every subscriber observes the commands in publication order: whenever
\* a subscriber is called with a publish, it has not yet been called with any
\* later publish (ids are positions in the publication order).
C1_PublicationOrder ==
  [][\A cb \in SubscriberNames :
       \A id \in seen'[cb] \ seen[cb] : \A k \in seen[cb] : k < id]_vars

\* C2: a command published by a subscriber while it processes command c is
\* delivered only after c has been delivered to every subscriber: when any
\* subscriber is called with a publish that was made inside the processing of
\* c, every subscriber has already been called with c.
C2_ReentrantAfterFanout ==
  [][\A cb \in SubscriberNames :
       \A id \in seen'[cb] \ seen[cb] :
         pubs[id].parent # 0 =>
           \A other \in SubscriberNames : pubs[id].parent \in seen[other]]_vars

\* C3: when a publish returns, every subscriber of the list copied at the
\* publish has been called exactly once, in registration order, whether or
\* not an earlier one raised.
C3_EverySubscriberOnce == \A c \in completed : c.invoked = c.subs

\* a fan-out finished although a subscriber before the last one raised
C3_Witness ==
  \E c \in completed :
    /\ c.invoked = c.subs
    /\ \E i \in 1..(Len(c.subs) - 1) : c.subs[i] \in c.raised

\* C10: no message whose type is zeroconf, zeroconf_removed, dns or dns_sub is
\* passed to an adapter, by the dispatcher or by the replay.
C10_NoDiscoveryToAdapters == \A m \in adapter_log : m.type \notin DiscoveryTypes

\* the dispatcher was called with a discovery-typed command that names an
\* eligible device, and passed nothing on
C10_Witness ==
  \E w \in Threads :
    /\ ~Idle(w)
    /\ Top(w).cmd.type \in DiscoveryTypes
    /\ Top(w).cmd.device \in Devices
    /\ Eligible(Top(w).cmd.device, device_states, device_vars)
    /\ Len(Top(w).invoked) = 3
    /\ Top(w).invoked[3] = "_dispatch_to_plugins"
    /\ adapter_log = {}

\* the thread whose publication _on_internal_command handles in this step
Handling(w) ==
  /\ ~Idle(w)
  /\ Top(w).id \in seen'["_on_internal_command"] \ seen["_on_internal_command"]

\* C9: handling a health_response for a configured device d sets d.reachable
\* to the truth of its value and d's stamp to the current time; handling one
\* that names no configured device changes nothing in the registry.
C9_HealthResponseRecorded ==
  [][\A w \in Threads :
       (Handling(w) /\ Top(w).cmd.type = "health_response") =>
         LET d == Top(w).cmd.device IN
         IF d \in Devices
         THEN /\ device_states'[d].reachable = (Top(w).cmd.value = JTrue)
              /\ last_health_response'[d] = now
              /\ \A e \in Devices \ {d} :
                   /\ device_states'[e] = device_states[e]
                   /\ last_health_response'[e] = last_health_response[e]
         ELSE UNCHANGED <<device_states, last_health_response>>]_vars

\* a true health_response of a configured device has just been handled
C9_Witness ==
  \E w \in Threads :
    /\ ~Idle(w)
    /\ Top(w).cmd.type = "health_response"
    /\ Top(w).cmd.device \in Devices
    /\ Top(w).cmd.value = JTrue
    /\ Top(w).id \in seen["_on_internal_command"]
    /\ device_states[Top(w).cmd.device].reachable
    /\ last_health_response[Top(w).cmd.device] = now

(***************************************************************************)
(* SpecHealth: the health engine on a clock of seconds.  A timeout worker   *)
(* is one thread running _health_timeout_loop; its pass over the registry   *)
(* is split at every read and write of shared state, so that the handler    *)
(* of a health_response (another thread) can run between any two of them.   *)
(* The bus is idle in this specification: a health_timeout changes no       *)
(* registry field when it is delivered, and a health probe only reaches the *)
(* adapter, whose answer is the environment's choice.                       *)
(***************************************************************************)
tickVars == <<wpc, wake, tnow, tlast, tdev>>
respVars == <<rpc, rcmd>>
histVars == <<probes, timeouts, verdict, since, behaved>>
idleVars == <<command_subscribers, device_vars, last_filename, zc_services, busVars, pdev,
              fpc, ev, call, job, life>>

DeviceAt(i) == expected[i].attached_name

\* the devices whose host answers in this environment
HealthDevices == {"A"}

\* line 348
TickEligible(st) == st.resolved /\ st.checked

\* line 350
TimedOut(tn, tl) == tn - tl > HealthInterval + Grace

Live(w) == wpc[w] # "off"

\* lines 345-346: the worker wakes, finds _running true and reads the clock
TickBegin(w) ==
  /\ wpc[w] = "sleep" /\ wake[w] <= now
  /\ wpc' = [wpc EXCEPT ![w] = "visit"]
  /\ tnow' = [tnow EXCEPT ![w] = now]
  /\ tdev' = [tdev EXCEPT ![w] = 1]
  /\ UNCHANGED <<regVars, idleVars, wake, tlast, pwake, respVars, histVars>>

\* line 348 false
TickSkip(w) ==
  /\ wpc[w] = "visit" /\ tdev[w] <= Len(expected)
  /\ ~TickEligible(device_states[DeviceAt(tdev[w])])
  /\ tdev' = [tdev EXCEPT ![w] = @ + 1]
  /\ UNCHANGED <<regVars, idleVars, wpc, wake, tnow, tlast, pwake, respVars, histVars>>

\* lines 348-349
TickRead(w) ==
  /\ wpc[w] = "visit" /\ tdev[w] <= Len(expected)
  /\ TickEligible(device_states[DeviceAt(tdev[w])])
  /\ tlast' = [tlast EXCEPT ![w] = last_health_response[DeviceAt(tdev[w])]]
  /\ wpc' = [wpc EXCEPT ![w] = "decide"]
  /\ UNCHANGED <<regVars, idleVars, wake, tnow, tdev, pwake, respVars, histVars>>

\* lines 350-352
TickFire(w) ==
  /\ wpc[w] = "decide"
  /\ TimedOut(tnow[w], tlast[w])
  /\ device_states' = [device_states EXCEPT ![DeviceAt(tdev[w])].reachable = FALSE]
  /\ wpc' = [wpc EXCEPT ![w] = "stamp"]
  /\ UNCHANGED <<last_health_response, now, idleVars, wake, tnow, tlast, tdev, pwake,
                 respVars, histVars>>

\* lines 354-358: the stamp and the publication of health_timeout
TickStamp(w) ==
  LET d == DeviceAt(tdev[w]) IN
  /\ wpc[w] = "stamp"
  /\ last_health_response' = [last_health_response EXCEPT ![d] = tnow[w]]
  /\ timeouts' = [timeouts EXCEPT ![d] = [n |-> @.n + 1, at |-> now]]
  /\ verdict' = [verdict EXCEPT ![d] = "timeout"]
  /\ wpc' = [wpc EXCEPT ![w] = "visit"]
  /\ tdev' = [tdev EXCEPT ![w] = @ + 1]
  /\ tlast' = [tlast EXCEPT ![w] = 0]
  /\ UNCHANGED <<device_states, now, idleVars, wake, tnow, pwake, respVars, probes,
                 since, behaved>>

\* lines 359-360
TickAlive(w) ==
  /\ wpc[w] = "decide"
  /\ ~TimedOut(tnow[w], tlast[w])
  /\ device_states' = [device_states EXCEPT ![DeviceAt(tdev[w])].reachable = TRUE]
  /\ wpc' = [wpc EXCEPT ![w] = "visit"]
  /\ tdev' = [tdev EXCEPT ![w] = @ + 1]
  /\ tlast' = [tlast EXCEPT ![w] = 0]
  /\ UNCHANGED <<last_health_response, now, idleVars, wake, tnow, pwake, respVars,
                 histVars>>

\* line 362
TickSleep(w) ==
  /\ wpc[w] = "visit" /\ tdev[w] > Len(expected)
  /\ wpc' = [wpc EXCEPT ![w] = "sleep"]
  /\ wake' = [wake EXCEPT ![w] = now + TickPeriod]
  /\ tdev' = [tdev EXCEPT ![w] = 1]
  /\ UNCHANGED <<regVars, idleVars, tnow, tlast, pwake, respVars, histVars>>

\* _health_loop lines 321-329, one round: a health probe for every device
\* with an address; probes[d] keeps the send time of the oldest unanswered one
ProbeRound ==
  /\ pwake <= now
  /\ probes' = [d \in Devices |->
                  IF ProbeEligible(device_states[d]) /\ probes[d] = 0
                  THEN now ELSE probes[d]]
  /\ pwake' = now + HealthInterval
  /\ UNCHANGED <<regVars, idleVars, tickVars, respVars, timeouts, verdict, since,
                 behaved>>

\* _on_internal_command line 337 for a health_response of a configured device
RespondReach(d, v) ==
  LET cmd == Cmd("health_response", d, v) IN
  /\ rpc = "idle"
  /\ InternalApplies(cmd)
  /\ device_states' = [device_states EXCEPT ![d].reachable = InternalReachable(cmd)]
  /\ verdict' = [verdict EXCEPT ![d] = v]
  /\ behaved' = [behaved EXCEPT ![d] = @ /\ v = JTrue]
  /\ rcmd' = cmd
  /\ rpc' = "stamp"
  /\ UNCHANGED <<last_health_response, now, idleVars, tickVars, pwake, probes, timeouts,
                 since>>

\* _on_internal_command line 338
RespondStamp ==
  /\ rpc = "stamp"
  /\ last_health_response' =
       [last_health_response EXCEPT ![rcmd.device] = InternalLast(rcmd, now)]
  /\ probes' = [probes EXCEPT ![rcmd.device] = 0]
  /\ rcmd' = NoCmd
  /\ rpc' = "idle"
  /\ UNCHANGED <<device_states, now, idleVars, tickVars, pwake, timeouts, verdict, since,
                 behaved>>

\* _dns_poll_loop lines 110-122 with the device subscribers' writes
ResolveUp(d, ip) ==
  /\ DnsChanged(device_states, d, ip)
  /\ device_states' =
       NotifyDevice(DnsResolved(device_states, d, ip), d,
                    DnsEndpoint(device_states, d, ip), last_filename).st
  /\ since' = [since EXCEPT ![d] = IF device_states[d].resolved THEN @ ELSE now]
  /\ timeouts' = [timeouts EXCEPT ![d].at = IF device_states[d].resolved THEN @ ELSE 0]
  /\ UNCHANGED <<last_health_response, now, idleVars, tickVars, pwake, respVars, probes,
                 verdict, behaved>>

\* _dns_poll_loop lines 129-133
ResolveDown(d) ==
  /\ device_states[d].resolved
  /\ device_states' = DnsFailed(device_states, d)
  /\ since' = [since EXCEPT ![d] = 0]
  /\ UNCHANGED <<last_health_response, now, idleVars, tickVars, pwake, respVars, probes,
                 timeouts, verdict, behaved>>

\* a second passes: every sleeping loop has its wake-up still ahead, and no
\* handler is between its two writes
ClockTick ==
  /\ now < T0 + MaxTime
  /\ \A w \in TimeoutWorkers : Live(w) => wpc[w] = "sleep" /\ wake[w] > now
  /\ pwake > now
  /\ rpc = "idle"
  /\ now' = now + 1
  /\ behaved' = [d \in Devices |->
                   behaved[d] /\ (probes[d] = 0 \/ (now + 1) - probes[d] <= 1)]
  /\ UNCHANGED <<device_states, last_health_response, idleVars, tickVars, pwake, respVars,
                 probes, timeouts, verdict, since>>

NextHealth ==
  \/ \E w \in TimeoutWorkers : TickBegin(w)
  \/ \E w \in TimeoutWorkers : TickSkip(w)
  \/ \E w \in TimeoutWorkers : TickRead(w)
  \/ \E w \in TimeoutWorkers : TickFire(w)
  \/ \E w \in TimeoutWorkers : TickStamp(w)
  \/ \E w \in TimeoutWorkers : TickAlive(w)
  \/ \E w \in TimeoutWorkers : TickSleep(w)
  \/ ProbeRound
  \/ \E d \in HealthDevices, v \in {JTrue, JFalse} : RespondReach(d, v)
  \/ RespondStamp
  \/ \E d \in HealthDevices : ResolveUp(d, Ip1)
  \/ \E d \in HealthDevices : ResolveDown(d)
  \/ ClockTick

SpecHealth == Init /\ [][NextHealth]_vars

(***************************************************************************)
(* SpecRestart: the timeout engine of a silent device when the operator     *)
(* restarts the service.  restart() clears the registry and the stamps,     *)
(* calls shutdown() (which only lowers _running), sleeps 0.2 s and calls    *)
(* start(), which raises _running again and starts a new set of threads.    *)
(* A loop of the old set tests _running once per pass, after its sleep:     *)
(* whether it sees the flag lowered depends on where its sleep ends, so     *)
(* each sleeping old worker either stops or keeps running.                  *)
(***************************************************************************)
Restarts == Len(command_subscribers) - Len(Subscribers)

NewWorker == CHOOSE w \in TimeoutWorkers : ~Live(w)

\* restart() lines 372-390 with shutdown() line 394 and start() lines 41-70
Restart(stopped) ==
  /\ Restarts < MaxRestarts
  /\ rpc = "idle"
  /\ \A w \in stopped : wpc[w] = "sleep"
  /\ zc_services' = {}
  /\ device_states' = [d \in Devices |->
                         [device_states[d] EXCEPT !.resolved = FALSE, !.ip = NoAddr]]
  /\ last_health_response' = [d \in Devices |-> 0]
  /\ command_subscribers' = Append(command_subscribers, "_on_internal_command")
  /\ wpc' = [w \in TimeoutWorkers |->
               IF w = NewWorker THEN "sleep"
               ELSE IF w \in stopped THEN "off" ELSE wpc[w]]
  /\ wake' = [wake EXCEPT ![NewWorker] = now]
  /\ since' = [d \in Devices |-> 0]
  /\ UNCHANGED <<now, device_vars, last_filename, busVars, pdev, tnow, tlast, tdev, pwake,
                 respVars, probes, timeouts, verdict, behaved, fpc, ev, call, job, life>>

NextRestart ==
  \/ \E w \in TimeoutWorkers : TickBegin(w)
  \/ \E w \in TimeoutWorkers : TickSkip(w)
  \/ \E w \in TimeoutWorkers : TickRead(w)
  \/ \E w \in TimeoutWorkers : TickFire(w)
  \/ \E w \in TimeoutWorkers : TickStamp(w)
  \/ \E w \in TimeoutWorkers : TickAlive(w)
  \/ \E w \in TimeoutWorkers : TickSleep(w)
  \/ ProbeRound
  \/ \E d \in HealthDevices : ResolveUp(d, Ip1)
  \/ \E d \in HealthDevices : ResolveDown(d)
  \/ ClockTick
  \/ \E stopped \in SUBSET TimeoutWorkers : Restart(stopped)

SpecRestart == Init /\ [][NextRestart]_vars

(***************************************************************************)
(* SpecRegistry: the registry one field write at a time.  The DNS loop,     *)
(* the mDNS handler and restart() run on three threads and take no lock,    *)
(* so another thread can run between any two of their stores.  fpc.dns and  *)
(* fpc.zc name the store a thread is about to make; fpc.rs is 0 when        *)
(* restart() is not running, 2i-1 before it clears resolved of the i-th     *)
(* device and 2i before it clears that device's ip.                         *)
(***************************************************************************)
restVars == <<last_health_response, command_subscribers, device_vars, last_filename,
              zc_services, now, busVars, wpc, wake, tnow, tlast, tdev, pdev, pwake, rpc,
              rcmd, probes, timeouts, verdict, since, behaved, ev, call, job, life>>

RegistryAddrs == {Ip1, Ip2}

\* lines 110-112: gethostbyname answers and the answer is news
DnsLookup(d, ip) ==
  /\ fpc.dns = "idle"
  /\ DnsChanged(device_states, d, ip)
  /\ fpc' = [fpc EXCEPT !.dns = "resolved", !.ddev = d, !.dip = ip]
  /\ UNCHANGED <<device_states, restVars>>

\* line 113, the first target of the tuple assignment
DnsStoreResolved ==
  /\ fpc.dns = "resolved"
  /\ device_states' = [device_states EXCEPT ![fpc.ddev].resolved = TRUE]
  /\ fpc' = [fpc EXCEPT !.dns = "ip"]
  /\ UNCHANGED restVars

\* line 113, the second target
DnsStoreIp ==
  /\ fpc.dns = "ip"
  /\ device_states' = [device_states EXCEPT ![fpc.ddev].ip = fpc.dip]
  /\ fpc' = [fpc EXCEPT !.dns = "reachable"]
  /\ UNCHANGED restVars

\* lines 115-122: reachable, then the device event and its subscribers
DnsStoreReachable ==
  /\ fpc.dns = "reachable"
  /\ device_states' =
       NotifyDevice([device_states EXCEPT ![fpc.ddev].reachable = FALSE], fpc.ddev,
                    DnsEndpoint(device_states, fpc.ddev, fpc.dip), last_filename).st
  /\ fpc' = [fpc EXCEPT !.dns = "idle", !.ddev = None, !.dip = NoAddr]
  /\ UNCHANGED restVars

\* lines 129-133: the lookup fails for a resolved device
DnsLookupFails(d) ==
  /\ fpc.dns = "idle"
  /\ device_states[d].resolved
  /\ device_states' = DnsFailed(device_states, d)
  /\ UNCHANGED <<fpc, restVars>>

\* _on_zc_state_change lines 183-185 for a service that matches a device
ZcStoreIp(svc, addr) ==
  /\ fpc.zc = "idle"
  /\ CheckZcInDevices(svc) # None
  /\ device_states' = [device_states EXCEPT ![CheckZcInDevices(svc)].ip = addr]
  /\ fpc' = [fpc EXCEPT !.zc = "port"]
  /\ UNCHANGED restVars

\* line 186
ZcStorePort(svc, port) ==
  /\ fpc.zc = "port"
  /\ device_states' = [device_states EXCEPT ![CheckZcInDevices(svc)].port = port]
  /\ fpc' = [fpc EXCEPT !.zc = "resolved"]
  /\ UNCHANGED restVars

\* line 187
ZcStoreResolved(svc) ==
  /\ fpc.zc = "resolved"
  /\ device_states' = [device_states EXCEPT ![CheckZcInDevices(svc)].resolved = TRUE]
  /\ fpc' = [fpc EXCEPT !.zc = "device"]
  /\ UNCHANGED restVars

\* line 190: _zc_service_to_device and the device event
ZcToDevice(svc, addr, port) ==
  /\ fpc.zc = "device"
  /\ LET dev == CheckZcInDevices(svc)
         st1 == ZcApplied(device_states, dev, addr, port)
     IN device_states' =
          NotifyDevice(st1, dev, FormatEndpoint(st1[dev].ip, st1[dev].port),
                       last_filename).st
  /\ fpc' = [fpc EXCEPT !.zc = "idle"]
  /\ UNCHANGED restVars

\* restart() is called
RestartBegin ==
  /\ fpc.rs = 0
  /\ fpc' = [fpc EXCEPT !.rs = 1]
  /\ UNCHANGED <<device_states, restVars>>

\* line 378
RestartClearResolved ==
  /\ fpc.rs > 0 /\ fpc.rs % 2 = 1
  /\ device_states' = [device_states EXCEPT ![DeviceAt((fpc.rs + 1) \div 2)].resolved = FALSE]
  /\ fpc' = [fpc EXCEPT !.rs = @ + 1]
  /\ UNCHANGED restVars

\* lines 379-380
RestartClearIp ==
  /\ fpc.rs > 0 /\ fpc.rs % 2 = 0
  /\ device_states' = [device_states EXCEPT ![DeviceAt(fpc.rs \div 2)].ip = NoAddr]
  /\ fpc' = [fpc EXCEPT !.rs = IF @ = 2 * Len(expected) THEN 0 ELSE @ + 1]
  /\ UNCHANGED restVars

NextRegistry ==
  \/ \E d \in Devices, ip \in RegistryAddrs : DnsLookup(d, ip)
  \/ DnsStoreResolved
  \/ DnsStoreIp
  \/ DnsStoreReachable
  \/ \E d \in Devices : DnsLookupFails(d)
  \/ ZcStoreIp(SvcA, Ip2)
  \/ ZcStorePort(SvcA, Port1)
  \/ ZcStoreResolved(SvcA)
  \/ ZcToDevice(SvcA, Ip2, Port1)
  \/ RestartBegin
  \/ RestartClearResolved
  \/ RestartClearIp

SpecRegistry == Init /\ [][NextRegistry]_vars

(***************************************************************************)
(* Claims about the health engine.                                         *)
(***************************************************************************)

\* C5: a device is reachable only if the latest health event about it is a
\* health_response with a true value; after a false response or a timeout no
\* timeout tick makes it reachable again.
C5_ReachableOnlyAfterTrue ==
  \A d \in Devices : device_states[d].reachable => verdict[d] = JTrue

\* the worker that publishes a health_timeout for d in this step
Publishing(w, d) == wpc[w] = "stamp" /\ wpc'[w] = "visit" /\ d = DeviceAt(tdev[w])

\* C7: a health_timeout is published for d only if, at the publication, the
\* recorded last response of d is older than H + G; and a tick that read d's
\* last before a response was recorded does not overwrite what the response
\* wrote.
C7_ResponseNotLost ==
  [][\A w \in TimeoutWorkers :
       /\ \A d \in Devices :
            Publishing(w, d) => TimedOut(tnow[w], last_health_response[d])
       /\ (wpc[w] \in {"decide", "stamp"} /\ wpc'[w] # wpc[w])
            => last_health_response[DeviceAt(tdev[w])] = tlast[w]]_vars

\* C8: a device whose adapter answers every probe with true within a second
\* never gets a health_timeout, not even on the first tick after it resolved.
C8_NoTimeoutWhenAnswered ==
  \A d \in Devices : behaved[d] => timeouts[d].n = 0

\* C6: while a resolved, checked device stays silent, its health_timeouts are
\* more than H + G apart (never two for one interval), and its last stamp is
\* never older than H + G plus one tick period once it has been resolved for
\* a tick period (never none).
C6_OneTimeoutPerSilence ==
  [][\A d \in Devices :
       /\ (timeouts'[d].n > timeouts[d].n /\ verdict[d] = "timeout" /\ timeouts[d].at # 0)
            => now - timeouts[d].at > HealthInterval + Grace
       /\ TickEligible(device_states'[d])
            => \/ now' - last_health_response'[d] <= HealthInterval + Grace + TickPeriod
               \/ now' - since'[d] <= TickPeriod]_vars

(***************************************************************************)
(* Claim about the registry, checked under SpecRegistry.                    *)
(***************************************************************************)

\* C4: in every state, also between two field writes of the DNS loop, the
\* mDNS handler and restart(), a resolved device has a non-empty ip.
C4_ResolvedHasIp ==
  \A d \in Devices : device_states[d].resolved => AddrTruthy(device_states[d].ip)

(***************************************************************************)
(* SpecDispatch and SpecDiscovery: one whole event per step.  Every action  *)
(* is an event source                                                      *)
(* (an HTTP post, an adapter's reply, a check box, a DNS tick, an mDNS      *)
(* callback, a sweeper pass) run to completion on its thread with no other  *)
(* thread in between: the registry writes, the device event with its two    *)
(* subscribers, and the command's fan-out through all four subscribers,     *)
(* the dispatcher's deliveries and the publish nested in a delivery         *)
(* included.  ev records what the event published and delivered.            *)
(***************************************************************************)
eventRest == <<command_subscribers, now, stack, pubs, seen, completed, wpc, wake, tnow,
               tlast, tdev, pdev, pwake, rpc, rcmd, probes, timeouts, verdict, since,
               behaved, fpc, call, job, life>>

\* the event's record before the action fills in its own marks
Mark(cmds, devs) ==
  [ev EXCEPT !.cmds = cmds, !.devs = devs, !.raised = {}, !.replier = None,
             !.browser = << >>, !.swept = FALSE]

\* broadcast loop, lines 755-772: the position in order of the first adapter
\* that raises (the loop ends there), or the length of order
Reached(order, R) ==
  IF \E i \in 1..Len(order) : order[i] \in R
  THEN CHOOSE i \in 1..Len(order) :
         order[i] \in R /\ \A j \in 1..(i - 1) : order[j] \notin R
  ELSE Len(order)

\* _dispatch_to_plugins: the messages passed to PluginManager.handle for cmd
\* when the adapters in R raise; depth is 1 for the event's own command and 2
\* for a command published inside a delivery
Deliveries(cmd, st, dvars, R, depth) ==
  IF DispatchDrops(cmd) THEN {}
  ELSE IF cmd.type \in BroadcastTypes
  THEN LET order == BroadcastOrder(1, st, dvars)
       IN {AdapterMsg(order[i], cmd, st[order[i]], "broadcast", depth) :
             i \in 1..Reached(order, R)}
  ELSE IF TargetDelivers(cmd, st, dvars)
  THEN {AdapterMsg(Target(cmd), cmd, st[Target(cmd)], "target", depth)}
  ELSE {}

\* the command published while cmd is being delivered to its target: the
\* adapter's synchronous answer, or the dispatcher's negative health_response
\* (lines 799-808); NoCmd when nothing is published
NestedPublish(cmd, st, dvars, R) ==
  IF DispatchDrops(cmd) \/ cmd.type \in BroadcastTypes \/ ~TargetDelivers(cmd, st, dvars)
  THEN NoCmd
  ELSE LET d == Target(cmd)
           msg == AdapterMsg(d, cmd, st[d], "target", 1)
       IN IF HandleRaises(d \in R)
          THEN IF msg.type \in {"health", "health_timeout"}
               THEN Cmd("health_response", d, JFalse)
               ELSE NoCmd
          ELSE IF SyncReply(d, msg) THEN ExampleReply(d) ELSE NoCmd

\* _notify_command(cmd) to completion: _on_command_event (no registry
\* effect), _on_internal_command, _dispatch_to_plugins with the publish
\* nested in it, remember_filename.  A nested command is a health_response,
\* whose own delivery publishes nothing further.
AfterNested(cmd, r1, nested, dvars, R) ==
  LET m1 == Deliveries(cmd, r1.st, dvars, R, 1) IN
  IF nested = NoCmd
  THEN [st |-> r1.st, last |-> r1.last, msgs |-> m1, cmds |-> <<cmd>>]
  ELSE LET r2 == OnInternalCommand(nested, r1.st, r1.last, now)
       IN [st |-> r2.st, last |-> r2.last,
           msgs |-> m1 \cup Deliveries(nested, r2.st, dvars, R, 2),
           cmds |-> <<cmd, nested>>]

PublishAll(cmd, st, last, dvars, R) ==
  LET r1 == OnInternalCommand(cmd, st, last, now)
  IN AfterNested(cmd, r1, NestedPublish(cmd, r1.st, dvars, R), dvars, R)

Raisers(msgs, R) == {m.adapter : m \in msgs} \cap R

\* the commands the HTTP ingress posts in this specification
EventCommands ==
  { Cmd("health", "A", None),
    Cmd("health_timeout", None, "B"),
    Cmd("fileName", None, "take_01"),
    Cmd("broadcastGlos", None, "glos"),
    Cmd("setPath", "A", "path") }

\* Handler.do_POST: the posted command is published
EvPublish(cmd, R) ==
  \E r \in {PublishAll(cmd, device_states, last_health_response, device_vars, R)} :
  /\ device_states' = r.st
  /\ last_health_response' = r.last
  /\ last_filename' = RememberFilename(cmd, last_filename)
  /\ adapter_log' = r.msgs
  /\ ev' = [Mark(r.cmds, << >>) EXCEPT !.raised = Raisers(r.msgs, R)]
  /\ UNCHANGED <<device_vars, zc_services, eventRest>>

\* the frames a websocket adapter forwards from the wire
ReplyFrames == {Cmd("health_response", None, JTrue), Cmd("health_response", "A", JFalse)}

\* an adapter's own thread calls the reply callback PluginManager gave it
EvReply(d, msg, R) ==
  LET cmd == ReplyCmd(d, msg) IN
  \E r \in {PublishAll(cmd, device_states, last_health_response, device_vars, R)} :
     /\ ConfigOf(d).script = "ws"
     /\ device_states' = r.st
     /\ last_health_response' = r.last
     /\ last_filename' = RememberFilename(cmd, last_filename)
     /\ adapter_log' = r.msgs
     /\ ev' = [Mark(r.cmds, << >>) EXCEPT !.raised = Raisers(r.msgs, R), !.replier = d]
     /\ UNCHANGED <<device_vars, zc_services, eventRest>>

\* StyledDiscoveryUI._on_check_toggle(d) after the box of d flipped
EvToggle(d, R) ==
  LET dv == [device_vars EXCEPT ![d] = ~@]
      st1 == [e \in Devices |-> [device_states[e] EXCEPT !.checked = dv[e]]]
      st2 == [st1 EXCEPT ![d].reachable = FALSE]
      r == PublishAll(Cmd("health", d, None), st2, last_health_response, dv, R)
  IN /\ device_vars' = dv
     /\ IF dv[d]
        THEN /\ device_states' = r.st
             /\ last_health_response' = r.last
             /\ adapter_log' = r.msgs
             /\ ev' = [Mark(r.cmds, << >>) EXCEPT !.raised = Raisers(r.msgs, R)]
        ELSE /\ device_states' = st1
             /\ adapter_log' = {}
             /\ ev' = Mark(<< >>, << >>)
             /\ UNCHANGED last_health_response
     /\ UNCHANGED <<last_filename, zc_services, eventRest>>

\* a device event as the subscribers receive it
DeviceEvent(name, ep) == [name |-> name, ep |-> ep]

\* the event's record after a device event for d with endpoint ep left the
\* registry as st
Reported(e, d, ep, st) ==
  [e EXCEPT !.endpoint[d] = ep,
            !.reported[d] = [resolved |-> st[d].resolved, ip |-> st[d].ip]]

\* _dns_poll_loop lines 110-128 for one device: the lookup answers ip
EvDnsUp(d, ip) ==
  /\ DnsChanged(device_states, d, ip)
  /\ LET st1 == DnsResolved(device_states, d, ip)
         ep == DnsEndpoint(st1, d, ip)
         r == NotifyDevice(st1, d, ep, last_filename)
         cmd == DiscoveryCmd("dns", d, ip, None)
     IN /\ device_states' = r.st
        /\ adapter_log' = r.msgs
        /\ ev' = [Reported(Mark(<<cmd>>, <<DeviceEvent(d, ep)>>), d, ep, r.st)
                    EXCEPT !.down[d] = FALSE]
  /\ UNCHANGED <<last_health_response, device_vars, last_filename, zc_services,
                 eventRest>>

\* _dns_poll_loop lines 129-139 for one device: the lookup fails
EvDnsFail(d) ==
  /\ IF device_states[d].resolved
     THEN LET st1 == DnsFailed(device_states, d)
              r == NotifyDevice(st1, d, NoAddr, last_filename)
              cmd == DiscoveryCmd("dns", d, NoAddr, None)
          IN /\ device_states' = r.st
             /\ adapter_log' = r.msgs
             /\ ev' = [Reported(Mark(<<cmd>>, <<DeviceEvent(d, NoAddr)>>), d, NoAddr, r.st)
                         EXCEPT !.down[d] = TRUE]
     ELSE /\ device_states' = device_states
          /\ adapter_log' = {}
          /\ ev' = Mark(<< >>, << >>)
  /\ UNCHANGED <<last_health_response, device_vars, last_filename, zc_services,
                 eventRest>>

\* the services the browser reports in this specification
SvcY == <<"Y", "._mocap._tcp.local.">>
EventServices == {SvcA, SvcX, SvcY}

\* a key of _zc_services as a name: the matched device's name, or None
NameOfKey(k) == IF k = None THEN << >> ELSE <<k>>

\* _on_zc_state_change lines 164-191, Added or Updated with service info
EvZcAdded(svc, addr, port) ==
  LET dev == CheckZcInDevices(svc)
      cmd == DiscoveryCmd("zeroconf", svc, addr, port)
      st1 == ZcApplied(device_states, dev, addr, port)
      ep == FormatEndpoint(st1[dev].ip, st1[dev].port)
      r == NotifyDevice(st1, dev, ep, last_filename)
      e1 == [Mark(<<cmd>>, IF dev # None THEN <<DeviceEvent(dev, ep)>> ELSE << >>)
               EXCEPT !.announced = @ \cup {svc}, !.dead = @ \ {svc}]
  IN /\ IF dev # None
        THEN /\ device_states' = r.st
             /\ adapter_log' = r.msgs
             /\ ev' = Reported(e1, dev, ep, r.st)
        ELSE /\ device_states' = device_states
             /\ adapter_log' = {}
             /\ ev' = e1
     /\ zc_services' = {e \in zc_services : e.key # ZcKey(svc)}
                         \cup {[key |-> ZcKey(svc), cmd |-> cmd]}
     /\ UNCHANGED <<last_health_response, device_vars, last_filename, eventRest>>

\* the services a zeroconf_removed with this name stands for: the one of that
\* name and those stored under that key
RemovedBy(name, known) == {n \in known : n = name \/ NameOfKey(ZcKey(n)) = name}

\* _on_zc_state_change lines 193-195 and _handle_zc_removal: the browser
\* reports Removed for service name svc
EvZcRemoved(svc) ==
  LET held == {e \in zc_services : NameOfKey(e.key) = svc}
      cmd == DiscoveryCmd("zeroconf_removed", svc, NoAddr, None)
  IN /\ svc \in ev.announced
     /\ zc_services' = zc_services \ held
     /\ ev' = [Mark(IF held # {} THEN <<cmd>> ELSE << >>, << >>)
                 EXCEPT !.browser = svc,
                        !.announced = IF held # {} THEN @ \ RemovedBy(svc, @) ELSE @]
     /\ adapter_log' = {}
     /\ UNCHANGED <<device_states, last_health_response, device_vars, last_filename,
                    eventRest>>

\* the host of an announced service goes offline without a Goodbye
EvOffline(svc) ==
  /\ svc \in ev.announced \ ev.dead
  /\ ev' = [Mark(<< >>, << >>) EXCEPT !.dead = @ \cup {svc}]
  /\ adapter_log' = {}
  /\ UNCHANGED <<device_states, last_health_response, device_vars, last_filename,
                 zc_services, eventRest>>

\* the orders in which a pass over the dictionary can meet the entries of S
Orders(S) ==
  {q \in [1..Cardinality(S) -> S] : \A x \in S : \E i \in 1..Cardinality(S) : q[i] = x}

\* _zc_cleanup_loop lines 203-218, one pass: every stored entry none of whose
\* addresses accepts the connection goes through the Removed branch under
\* its key
EvSweep ==
  LET gone == {e \in zc_services : e.cmd.name \in ev.dead}
      names == {NameOfKey(e.key) : e \in gone}
  IN /\ zc_services # {}
     /\ zc_services' = zc_services \ gone
     /\ \E q \in Orders(names) :
          ev' = [Mark([i \in 1..Len(q) |->
                         DiscoveryCmd("zeroconf_removed", q[i], NoAddr, None)], << >>)
                   EXCEPT !.swept = TRUE,
                          !.announced = @ \ UNION {RemovedBy(n, @) : n \in names}]
     /\ adapter_log' = {}
     /\ UNCHANGED <<device_states, last_health_response, device_vars, last_filename,
                    eventRest>>

\* the adapters that raise during one event: none, or one of them
RaiseSets == {{}} \cup {{d} : d \in Devices}

\* SpecDispatch: commands, replies and check boxes while devices come and go
NextDispatch ==
  \/ \E cmd \in EventCommands, R \in RaiseSets : EvPublish(cmd, R)
  \/ \E d \in Devices, msg \in ReplyFrames : EvReply(d, msg, {})
  \/ \E d \in Devices : EvToggle(d, {})
  \/ \E d \in Devices : EvDnsUp(d, Ip1)
  \/ \E d \in Devices : EvDnsFail(d)
  \/ EvZcAdded(SvcA, Ip1, Port1)

SpecDispatch == Init /\ [][NextDispatch]_vars

\* SpecDiscovery: the resolver, the mDNS browser and the sweeper
NextDiscovery ==
  \/ \E d \in Devices : EvDnsUp(d, Ip1)
  \/ \E d \in Devices : EvDnsFail(d)
  \/ \E svc \in EventServices : EvZcAdded(svc, Ip1, Port1)
  \/ \E svc \in EventServices : EvZcRemoved(svc)
  \/ \E svc \in EventServices : EvOffline(svc)
  \/ EvSweep

SpecDiscovery == Init /\ [][NextDiscovery]_vars

(***************************************************************************)
(* Claims about the dispatcher and the replay, checked under SpecDispatch.  *)
(***************************************************************************)

\* C11: a published recordStart, recordStop, fileName, broadcastGlos or
\* setPath command is delivered, enriched, to the adapter of exactly the
\* devices that are ticked and have an ip and a port.
C11_BroadcastReachesAll ==
  (ev.cmds # << >>
     /\ ev.cmds[1].type \in {"recordStart", "recordStop", "fileName", "broadcastGlos",
                             "setPath"})
  => /\ {m.adapter : m \in {x \in adapter_log : x.id = 1}}
          = {d \in Devices : Eligible(d, device_states, device_vars)}
     /\ \A m \in adapter_log :
          m.id = 1 => /\ m.type = ev.cmds[1].type
                      /\ m.value = ev.cmds[1].value
                      /\ m.ip = device_states[m.adapter].ip
                      /\ m.port = device_states[m.adapter].port

\* C12: a command that is neither discovery-internal nor of a broadcast type
\* reaches no adapter but the one its device field names, and none at all
\* when that device is unticked or unresolved.
C12_TargetedOnlyToResolvedTarget ==
  (ev.cmds # << >>
     /\ ev.cmds[1].type \notin DiscoveryTypes
     /\ ev.cmds[1].type \notin {"recordStart", "recordStop", "fileName", "broadcastGlos",
                                "setPath"})
  => \A m \in adapter_log :
       m.id = 1 => /\ m.adapter = ev.cmds[1].device
                   /\ device_vars[m.adapter]
                   /\ device_states[m.adapter].resolved

\* a health or health_timeout delivery during which the adapter raised
RaisedOnHealth(m) ==
  /\ m.id = 1 /\ m.via = "target"
  /\ m.type \in {"health", "health_timeout"}
  /\ m.adapter \in ev.raised

\* C13: when the adapter of d raises while health or health_timeout is
\* delivered to it, {type: health_response, device: d, value: false} is
\* published and d is not reachable afterwards.
C13_RaiseYieldsNegative ==
  \A m \in adapter_log :
    RaisedOnHealth(m) =>
      /\ Len(ev.cmds) = 2
      /\ ev.cmds[2] = Cmd("health_response", m.adapter, JFalse)
      /\ ~device_states[m.adapter].reachable

\* the adapter of a device raised on a health delivery and the negative
\* health_response was published
C13_Witness ==
  \E m \in adapter_log :
    /\ RaisedOnHealth(m)
    /\ Len(ev.cmds) = 2
    /\ ev.cmds[2] = Cmd("health_response", m.adapter, JFalse)
    /\ ~device_states[m.adapter].reachable

\* C14: a command published through the reply callback of the adapter of d
\* carries device = d, whatever the adapter's message says.
C14_ReplyStampsDevice ==
  ev.replier # None => ev.cmds[1].device = ev.replier

\* the replays of the cached fileName handed to the adapter of d in this step
Replays(d) == {m \in adapter_log' : m.via = "replay" /\ m.adapter = d}

\* d had no endpoint and this step's device event gives it one
Connects(d) == ev.endpoint[d] = NoAddr /\ ev'.endpoint[d] # NoAddr

\* C15: the cached fileName is replayed to the adapter of d exactly once per
\* transition of d from no endpoint to an endpoint, with the cached value and
\* d's ip and sub_ip, and to no other adapter.
C15_ReplayOncePerConnect ==
  [][\A d \in Devices :
       /\ Replays(d) # {} => Connects(d)
       /\ (Connects(d) /\ last_filename # "")
            => /\ Cardinality(Replays(d)) = 1
               /\ \A m \in Replays(d) :
                    /\ m.type = "fileName"
                    /\ m.value = last_filename
                    /\ m.ip = device_states'[d].ip
                    /\ m.sub_ip = device_states'[d].sub_ip]_vars

(***************************************************************************)
(* Claims about the resolver, the browser and the sweeper, checked under    *)
(* SpecDiscovery.                                                           *)
(***************************************************************************)

\* this step published a dns command for d: a failure, or a success
DnsFailurePublished(d) ==
  \E i \in 1..Len(ev'.cmds) :
    ev'.cmds[i].type = "dns" /\ ev'.cmds[i].name = d /\ ev'.cmds[i].ip = NoAddr

DnsSuccessPublished(d) ==
  \E i \in 1..Len(ev'.cmds) :
    ev'.cmds[i].type = "dns" /\ ev'.cmds[i].name = d /\ ev'.cmds[i].ip # NoAddr

\* C16: the resolver reports a failure of d once: after a reported failure
\* no further failure is published for d until a DNS lookup of d succeeds,
\* whatever mDNS does in between; and every dns command comes with a device
\* event of the same device.
C16_DnsEdgeTriggered ==
  [][\A d \in Devices :
       /\ DnsFailurePublished(d) => ~ev.down[d]
       /\ (DnsFailurePublished(d) \/ DnsSuccessPublished(d))
            => \E i \in 1..Len(ev'.devs) : ev'.devs[i].name = d]_vars

\* C17: a DNS failure after a success clears resolved, keeps the ip and
\* emits (name, no endpoint); a DNS success emits (name, ip), the ip followed
\* by the port only when mDNS announced one.
C17_FailureKeepsIp ==
  [][\A d \in Devices :
       /\ DnsFailurePublished(d)
            => /\ ~device_states'[d].resolved
               /\ device_states'[d].ip = device_states[d].ip
               /\ ev'.devs = <<DeviceEvent(d, NoAddr)>>
       /\ DnsSuccessPublished(d)
            => /\ Len(ev'.devs) = 1
               /\ ev'.devs[1].name = d
               /\ ev'.devs[1].ep \in {device_states'[d].ip,
                                      FormatEndpoint(device_states'[d].ip, Port1)}]_vars

\* C18: two consecutive device events of a device never report the same
\* resolved and ip.
C18_NoDuplicateDeviceEvents ==
  [][\A i \in 1..Len(ev'.devs) :
       ev'.reported[ev'.devs[i].name] # ev.reported[ev'.devs[i].name]]_vars

\* the positions in this step's publications of a zeroconf_removed that
\* names service n or the key it is stored under
RemovalsOf(n) ==
  {i \in 1..Len(ev'.cmds) :
     /\ ev'.cmds[i].type = "zeroconf_removed"
     /\ ev'.cmds[i].name \in {n, NameOfKey(ZcKey(n))}}

\* C19: when the browser reports Removed for an announced service n, exactly
\* {type: zeroconf_removed, name: n} is published and n is forgotten; and a
\* zeroconf_removed always names a service that was announced and not removed.
C19_RemovedPublishedOnce ==
  [][/\ (ev'.browser # << >> /\ ev'.browser \in ev.announced)
          => /\ ev'.cmds = <<DiscoveryCmd("zeroconf_removed", ev'.browser, NoAddr, None)>>
             /\ \A e \in zc_services' : e.cmd.name # ev'.browser
     /\ \A i \in 1..Len(ev'.cmds) :
          ev'.cmds[i].type = "zeroconf_removed" => ev'.cmds[i].name \in ev.announced]_vars

\* C20: a pass of the sweeper publishes exactly one zeroconf_removed for every
\* known service none of whose addresses answers and forgets it, and none
\* for a known service with an address that answers.
C20_SweepRemovesDead ==
  [][ev'.swept =>
       /\ \A n \in ev.announced \cap ev.dead : Cardinality(RemovalsOf(n)) = 1
       /\ \A n \in ev.announced \ ev.dead : RemovalsOf(n) = {}
       /\ \A e \in zc_services' : e.cmd.name \notin ev.dead]_vars

(***************************************************************************)
(* SpecCalls: single calls of the functions that depend on their arguments  *)
(* only, one call per behaviour.  call records the function, its arguments  *)
(* and what it returned.                                                    *)
(***************************************************************************)
callRest == <<regVars, busVars, wpc, wake, tnow, tlast, tdev, pdev, pwake, rpc, rcmd,
              probes, timeouts, verdict, since, behaved, fpc, ev, job, life>>

\* names as character sequences over a two-letter alphabet, up to two long
NameChars == {"a", "b"}
Names == {<< >>} \cup {<<x>> : x \in NameChars} \cup {<<x, y>> : x, y \in NameChars}

\* configured devices and service names: no name is empty
MatchNames == Names \ {<< >>}
MatchDevices == {[attached_name |-> n, hostname |-> h] : n, h \in MatchNames}
MatchLists == {<<d>> : d \in MatchDevices} \cup {<<d, e>> : d, e \in MatchDevices}

\* the value returned when no device matches
NoMatch == <<None>>

\* _check_zc_in_devices lines 226-231 over the device list devs, from device i
RECURSIVE CheckZcNames(_, _, _)
CheckZcNames(devs, i, name) ==
  IF i > Len(devs) THEN NoMatch
  ELSE IF devs[i].attached_name = name \/ StartsWith(name, devs[i].attached_name)
       THEN devs[i].attached_name
  ELSE IF devs[i].hostname = name \/ StartsWith(name, devs[i].hostname)
       THEN devs[i].attached_name
  ELSE CheckZcNames(devs, i + 1, name)

CallCheckZc(devs, name) ==
  /\ call = NoCall
  /\ call' = [fn |-> "_check_zc_in_devices", devs |-> devs, name |-> name,
              result |-> CheckZcNames(devs, 1, name)]
  /\ UNCHANGED callRest

\* the checked key of a device's entry in config.yaml
CheckedKeys == {"absent", JTrue, JFalse}

\* __init__ line 31: d.get('checked', False)
InitChecked(key) == IF key = "absent" THEN FALSE ELSE key = JTrue

\* StyledDiscoveryUI.__init__ line 451: tk.BooleanVar(value=True)
DeviceVarInit == TRUE

\* set_device_filter: every checked flag becomes fn(name)
SetDeviceFilter(flags, fn) == [d \in DOMAIN flags |-> fn[d]]

\* __main__ lines 734-741: DiscoveryService(...), StyledDiscoveryUI(...),
\* ui._on_check_toggle(None), disco.start()
CallStartup(keys) ==
  /\ call = NoCall
  /\ call' = [fn |-> "__main__", keys |-> keys,
              checked |-> SetDeviceFilter([d \in Devices |-> InitChecked(keys[d])],
                                          [d \in Devices |-> DeviceVarInit])]
  /\ UNCHANGED callRest

NextCalls ==
  \/ \E devs \in MatchLists, name \in MatchNames : CallCheckZc(devs, name)
  \/ \E keys \in [Devices -> CheckedKeys] : CallStartup(keys)

SpecCalls == Init /\ [][NextCalls]_vars

(***************************************************************************)
(* Claims about single calls, checked under SpecCalls.                      *)
(***************************************************************************)

\* the device whose field f is the first, in configuration order, that equals
\* the name or is a prefix of it
FirstBy(devs, name, byHost) ==
  LET hits == {i \in 1..Len(devs) :
                 StartsWith(name, IF byHost THEN devs[i].hostname ELSE devs[i].attached_name)}
  IN IF hits = {} THEN NoMatch
     ELSE devs[CHOOSE i \in hits : \A j \in hits : i <= j].attached_name

\* C21: _check_zc_in_devices returns the device of the two-pass reference:
\* the first device matching by attached_name, and only when there is none
\* the first device matching by hostname.
C21_MatchIsTwoPass ==
  call.fn = "_check_zc_in_devices"
    => call.result = (IF FirstBy(call.devs, call.name, FALSE) # NoMatch
                      THEN FirstBy(call.devs, call.name, FALSE)
                      ELSE FirstBy(call.devs, call.name, TRUE))

(***************************************************************************)
(* SpecAdapter: one websocket adapter (ShogunInterface, OBSinterface or     *)
(* LLFinterface) handling one command at a time: handle_message, then the   *)
(* coroutine _send_to_* step by step (build, connect, send, receive or      *)
(* pump).  job.published is what the coroutine passed to _send_response.    *)
(***************************************************************************)
adapterRest == <<regVars, busVars, wpc, wake, tnow, tlast, tdev, pdev, pwake, rpc, rcmd,
                 probes, timeouts, verdict, since, behaved, fpc, ev, call, life>>

AdapterKinds == {"shogun", "obs", "llf"}

\* the device the adapter was initialised for: _cfg["attached_name"]
AdapterDevice == "B"

\* handle_message: the types the adapter reacts to
Accepted(k) ==
  {"recordStart", "recordStop", "broadcastGlos", "fileName", "health"}
    \cup (IF k = "llf" THEN {} ELSE {"setPath"})

\* the role whose setPath the adapter takes
OwnRole(k) == IF k = "shogun" THEN "VICON_CAPTURE" ELSE "OBS"

NoPayload == << >>

\* _build_payload: the command as the line sent on the websocket
BuildPayload(k, cmd) ==
  IF cmd.type = "recordStart" THEN <<"Start">>
  ELSE IF cmd.type = "recordStop" THEN <<"Stop">>
  ELSE IF cmd.type \in {"broadcastGlos", "fileName"} THEN <<"SetName", cmd.value>>
  ELSE IF cmd.type = "health" THEN <<"health">>
  ELSE IF cmd.type = "setPath" /\ k # "llf"
       THEN IF cmd.role # OwnRole(k) THEN NoPayload ELSE <<"SetPath", cmd.value>>
  ELSE NoPayload

\* the commands the dispatcher hands to the adapter
AdapterCommands ==
  {[type |-> t, value |-> "v", ip |-> e[1], port |-> e[2], sub_ip |-> sub, role |-> r] :
     t \in {"recordStart", "recordStop", "broadcastGlos", "fileName", "health", "setPath",
            "health_timeout"},
     e \in {<<NoAddr, None>>, <<Ip1, None>>, <<Ip1, Port1>>},
     sub \in {NoAddr, SubIp1},
     r \in {None, "VICON_CAPTURE", "OBS"}}

\* ok = (reply == "Good")
HealthOkNever(reply) == JFalse
HealthOk(reply) == IF reply = "Good" THEN JTrue ELSE JFalse

\* the except branch of _send_to_*: report failure for health
Except(j) ==
  [j EXCEPT !.pc = "done",
            !.published = IF j.cmd.type = "health"
                          THEN Append(@, Cmd("health_response", AdapterDevice, JFalse))
                          ELSE @]

\* handle_message: return, or schedule the coroutine on the adapter's loop
AdHandleMessage(k, cmd) ==
  /\ job.pc \in {"idle", "done"}
  /\ job' = [pc |-> IF cmd.type \notin Accepted(k) \/ ~AddrTruthy(cmd.ip)
                       \/ ~PortTruthy(cmd.port)
                    THEN "done" ELSE "start",
             kind |-> k, cmd |-> cmd, payload |-> NoPayload, opened |-> FALSE,
             sent |-> NoPayload, reply |-> None, published |-> << >>]
  /\ UNCHANGED adapterRest

\* _send_to_*: build the payload; LLFinterface adds sub_ip to a health payload
\* and answers false at once when there is none
AdStart ==
  /\ job.pc = "start"
  /\ LET payload == BuildPayload(job.kind, job.cmd)
     IN job' = IF payload = NoPayload THEN [job EXCEPT !.pc = "done"]
               ELSE IF job.kind = "llf" /\ payload = <<"health">>
                    THEN IF AddrTruthy(job.cmd.sub_ip)
                         THEN [job EXCEPT !.pc = "connect",
                                          !.payload = payload \o job.cmd.sub_ip]
                         ELSE [job EXCEPT !.pc = "done", !.payload = payload,
                                   !.published = Append(@, Cmd("health_response",
                                                               AdapterDevice, JFalse))]
               ELSE [job EXCEPT !.pc = "connect", !.payload = payload]
  /\ UNCHANGED adapterRest

\* websockets.connect(uri)
AdConnect(ok) ==
  /\ job.pc = "connect"
  /\ job' = IF ok THEN [job EXCEPT !.pc = "send", !.opened = TRUE]
            ELSE Except(job)
  /\ UNCHANGED adapterRest

\* ws.send(payload)
AdSend(ok) ==
  /\ job.pc = "send"
  /\ job' = IF ~ok THEN Except(job)
            ELSE [job EXCEPT !.sent = job.payload,
                             !.pc = IF job.cmd.type = "health" THEN "recv"
                                    ELSE IF job.kind = "llf" THEN "done" ELSE "pump"]
  /\ UNCHANGED adapterRest

\* the one reply of a health check within 5 s, or the timeout
AdReplies == {"Good", "Bad"}
AdRecv(reply) ==
  /\ job.pc = "recv"
  /\ job' = IF reply = None THEN Except(job)
            ELSE [job EXCEPT !.pc = "done", !.reply = reply,
                     !.published = Append(@, Cmd("health_response", AdapterDevice,
                                                 HealthOk(reply)))]
  /\ UNCHANGED adapterRest

\* _pump_incoming: a JSON object frame is forwarded as it is
AdPump(frame) ==
  /\ job.pc = "pump"
  /\ job.published = << >>
  /\ job' = [job EXCEPT !.published = Append(@, frame)]
  /\ UNCHANGED adapterRest

\* _pump_incoming ends: idle for 5 s, 30 s in all, or the connection fails
AdPumpEnd ==
  /\ job.pc = "pump"
  /\ job' = [job EXCEPT !.pc = "done"]
  /\ UNCHANGED adapterRest

\* a step of the coroutine that the adapter's event loop takes by itself
AdProgress ==
  \/ AdStart
  \/ \E ok \in BOOLEAN : AdConnect(ok)
  \/ \E ok \in BOOLEAN : AdSend(ok)
  \/ \E reply \in AdReplies \cup {None} : AdRecv(reply)
  \/ AdPumpEnd

NextAdapter ==
  \/ \E k \in AdapterKinds, cmd \in AdapterCommands : AdHandleMessage(k, cmd)
  \/ AdStart
  \/ \E ok \in BOOLEAN : AdConnect(ok)
  \/ \E ok \in BOOLEAN : AdSend(ok)
  \/ \E reply \in AdReplies \cup {None} : AdRecv(reply)
  \/ \E frame \in ReplyFrames : AdPump(frame)
  \/ AdPumpEnd

SpecAdapter == Init /\ [][NextAdapter]_vars

\* the event loop runs every scheduled coroutine; connect, send and recv end
\* by themselves (open timeout, 5 s deadline)
SpecAdapterLive == SpecAdapter /\ WF_vars(AdProgress)

(***************************************************************************)
(* Claims about the adapters, checked under SpecAdapterLive and SpecAdapter.*)
(***************************************************************************)

\* the adapter is handling, or has handled, a health command that came with
\* an ip and a port
HealthJob ==
  /\ job.pc # "idle"
  /\ job.cmd.type = "health"
  /\ AddrTruthy(job.cmd.ip) /\ PortTruthy(job.cmd.port)

\* C22: for every health command with ip and port the adapter eventually
\* publishes exactly one health_response of its device, true if and only if
\* the reply received was "Good".
C22_HealthAnsweredOnce ==
  /\ [](HealthJob =>
          /\ Len(job.published) <= 1
          /\ job.pc = "done" =>
               job.published = <<Cmd("health_response", AdapterDevice,
                                     IF job.reply = "Good" THEN JTrue ELSE JFalse)>>)
  /\ (HealthJob /\ job.pc = "start") ~> (HealthJob /\ job.pc = "done")

C22_Witness ==
  /\ HealthJob /\ job.pc = "done" /\ job.reply = "Good"
  /\ job.published = <<Cmd("health_response", AdapterDevice, JTrue)>>

\* the payload the adapter of kind k is to send for a command
ClaimedPayload(k, cmd) ==
  IF cmd.type = "recordStart" THEN <<"Start">>
  ELSE IF cmd.type = "recordStop" THEN <<"Stop">>
  ELSE IF cmd.type \in {"fileName", "broadcastGlos"} THEN <<"SetName", cmd.value>>
  ELSE IF cmd.type = "health" THEN <<"health">>
  ELSE IF cmd.type = "setPath" /\ k # "llf" /\ cmd.role = OwnRole(k)
       THEN <<"SetPath", cmd.value>>
  ELSE NoPayload

\* C23: an adapter's payload is Start for recordStart, Stop for recordStop,
\* "SetName <value>" for fileName and broadcastGlos, health for health and
\* "SetPath <value>" for a setPath of its own role; for any other command it
\* builds no payload, opens no connection and publishes nothing.
C23_PayloadMapping ==
  job.pc \notin {"idle", "start"} =>
    /\ (AddrTruthy(job.cmd.ip) /\ PortTruthy(job.cmd.port))
         => job.payload = ClaimedPayload(job.kind, job.cmd)
    /\ ClaimedPayload(job.kind, job.cmd) = NoPayload
         => job.payload = NoPayload /\ ~job.opened /\ job.published = << >>

(***************************************************************************)
(* restart() and shutdown() step by step, and the loop threads.  A loop     *)
(* thread reads self._running at the top of every round (LoopCheck); its    *)
(* round may publish (LoopRound), the registry effects of the rounds being  *)
(* those of the specifications above.                                       *)
(***************************************************************************)
lifeRest == <<device_vars, last_filename, now, busVars, wpc, wake, tnow, tlast, tdev,
              pdev, pwake, rpc, rcmd, probes, timeouts, verdict, since, behaved, fpc,
              call, job>>

\* restart() step 1, lines 372-374: zeroconf_removed for every key, then clear
RestartRemove ==
  /\ life.rs = 0 /\ life.running /\ ~life.closed
  /\ Restarts < MaxRestarts
  /\ LET names == {NameOfKey(e.key) : e \in zc_services}
     IN \E q \in Orders(names) :
          ev' = [Mark([i \in 1..Len(q) |->
                         DiscoveryCmd("zeroconf_removed", q[i], NoAddr, None)], << >>)
                   EXCEPT !.announced = @ \ UNION {RemovedBy(n, @) : n \in names}]
  /\ zc_services' = {}
  /\ life' = [life EXCEPT !.rs = 1]
  /\ UNCHANGED <<device_states, last_health_response, command_subscribers, lifeRest>>

\* restart() step 2, lines 377-380: every device unresolved, without ip, and
\* reported down
RestartDown ==
  /\ life.rs = 1
  /\ device_states' = [d \in Devices |->
                         [device_states[d] EXCEPT !.resolved = FALSE, !.ip = NoAddr]]
  /\ ev' = [Mark(<< >>, [i \in DeviceIdx |-> DeviceEvent(DeviceAt(i), NoAddr)])
              EXCEPT !.endpoint = [d \in Devices |-> NoAddr],
                     !.reported = [d \in Devices |-> [resolved |-> FALSE, ip |-> NoAddr]]]
  /\ life' = [life EXCEPT !.rs = 2]
  /\ UNCHANGED <<zc_services, last_health_response, command_subscribers, lifeRest>>

\* restart() step 3, line 383
RestartReset ==
  /\ life.rs = 2
  /\ last_health_response' = [d \in Devices |-> 0]
  /\ ev' = Mark(<< >>, << >>)
  /\ life' = [life EXCEPT !.rs = 3]
  /\ UNCHANGED <<device_states, zc_services, command_subscribers, lifeRest>>

\* shutdown(): the flag, the browser, the listeners
ShutDown(l) == [l EXCEPT !.running = FALSE, !.zc_open = FALSE]

\* restart() step 4, line 386
RestartShutdown ==
  /\ life.rs = 3
  /\ life' = [ShutDown(life) EXCEPT !.rs = 4]
  /\ ev' = Mark(<< >>, << >>)
  /\ UNCHANGED <<device_states, zc_services, last_health_response, command_subscribers,
                 lifeRest>>

\* restart() step 5, lines 387-390: sleep 0.2 s, then start() sets the flag
\* and starts one more thread per loop
RestartStart ==
  /\ life.rs = 4
  /\ life' = [life EXCEPT !.rs = 0, !.running = TRUE, !.zc_open = TRUE,
                          !.loop = [k \in LoopKinds |->
                                      [life.loop[k] EXCEPT ![Restarts + 2] = "sleep"]]]
  /\ zc_services' = {}
  /\ last_health_response' = [d \in Devices |-> 0]
  /\ command_subscribers' = Append(command_subscribers, "_on_internal_command")
  /\ ev' = Mark(<< >>, << >>)
  /\ UNCHANGED <<device_states, lifeRest>>

\* _on_close: shutdown() with no start() after it
Shutdown ==
  /\ life.rs = 0 /\ life.running /\ ~life.closed
  /\ life' = [ShutDown(life) EXCEPT !.closed = TRUE]
  /\ ev' = Mark(<< >>, << >>)
  /\ UNCHANGED <<device_states, zc_services, last_health_response, command_subscribers,
                 lifeRest>>

\* `while self._running:`
LoopGoesOnAnyway(running) == TRUE
LoopGoesOn(running) == running

\* the top of a round of loop k's thread g
LoopCheck(k, g) ==
  /\ life.loop[k][g] = "sleep"
  /\ life' = [life EXCEPT !.loop[k][g] = IF LoopGoesOn(life.running) THEN "body"
                                         ELSE "exited"]
  /\ UNCHANGED <<ev, device_states, zc_services, last_health_response,
                 command_subscribers, lifeRest>>

\* what a round of loop k publishes, when it publishes
LoopCmd(k) ==
  IF k = "resolver" THEN DiscoveryCmd("dns", "A", Ip1, None)
  ELSE IF k = "sweeper" THEN DiscoveryCmd("zeroconf_removed", "A", NoAddr, None)
  ELSE IF k = "probe" THEN Cmd("health", "A", None)
  ELSE Cmd("health_timeout", None, ConfigOf("A").hostname)

\* one round of loop k's thread g, up to the end of its sleep
LoopRound(k, g, publishes) ==
  /\ life.loop[k][g] = "body"
  /\ life' = [life EXCEPT !.loop[k][g] = "sleep"]
  /\ ev' = Mark(IF publishes THEN <<LoopCmd(k)>> ELSE << >>, << >>)
  /\ UNCHANGED <<device_states, zc_services, last_health_response, command_subscribers,
                 lifeRest>>

LoopStep(k, g) == LoopCheck(k, g) \/ \E publishes \in BOOLEAN : LoopRound(k, g, publishes)

NextRestartSteps ==
  \/ life.zc_open /\ \E svc \in EventServices : EvZcAdded(svc, Ip1, Port1)
  \/ life.running /\ \E d \in Devices : EvDnsUp(d, Ip1)
  \/ RestartRemove
  \/ RestartDown
  \/ RestartReset
  \/ RestartShutdown
  \/ RestartStart

SpecRestartSteps == Init /\ [][NextRestartSteps]_vars

NextShutdown ==
  \/ \E k \in LoopKinds, g \in TimeoutWorkers : LoopCheck(k, g)
  \/ \E k \in LoopKinds, g \in TimeoutWorkers, publishes \in BOOLEAN : LoopRound(k, g, publishes)
  \/ Shutdown

\* every loop thread keeps running: its round and its sleep end
SpecShutdown ==
  /\ Init /\ [][NextShutdown]_vars
  /\ \A k \in LoopKinds, g \in TimeoutWorkers : WF_vars(LoopStep(k, g))

NextLoops ==
  \/ \E k \in LoopKinds, g \in TimeoutWorkers : LoopCheck(k, g)
  \/ \E k \in LoopKinds, g \in TimeoutWorkers, publishes \in BOOLEAN : LoopRound(k, g, publishes)
  \/ RestartRemove
  \/ RestartDown
  \/ RestartReset
  \/ RestartShutdown
  \/ RestartStart

SpecLoops == Init /\ [][NextLoops]_vars

(***************************************************************************)
(* Claims about restart(), shutdown() and the loop threads.                 *)
(***************************************************************************)

\* C24: restart() publishes one zeroconf_removed for every known service,
\* then a device-down event for every device, then resets every
\* last_health_response to 0; only after the three it tears down, and only
\* after the teardown it starts again.  (Checked under SpecRestartSteps.)
C24_RestartAnnouncesFirst ==
  [][/\ (life.rs = 0 /\ life'.rs = 1)
          => /\ \A n \in ev.announced : Cardinality(RemovalsOf(n)) = 1
             /\ Len(ev'.cmds) = Cardinality(ev.announced)
     /\ (life.rs = 1 /\ life'.rs = 2)
          => /\ Len(ev'.devs) = Cardinality(Devices)
             /\ \A d \in Devices :
                  \E i \in 1..Len(ev'.devs) : ev'.devs[i] = DeviceEvent(d, NoAddr)
     /\ (life.rs = 2 /\ life'.rs = 3) => \A d \in Devices : last_health_response'[d] = 0
     /\ (life.running /\ ~life'.running) => life.rs = 3
     /\ (~life.running /\ life'.running) => life.rs = 4]_vars

\* every loop thread has left its loop
AllExited ==
  \A k \in LoopKinds, g \in TimeoutWorkers : life.loop[k][g] \in {"off", "exited"}

\* C25: shutdown() itself publishes no command and no device event; after it
\* every loop eventually exits, and nothing is published once they have.
\* (Checked under SpecShutdown.)
C25_ShutdownStopsLoops ==
  /\ [][(~life.closed /\ life'.closed) => ev'.cmds = << >> /\ ev'.devs = << >>]_vars
  /\ life.closed ~> AllExited
  /\ [][(life.closed /\ AllExited) => ev' = ev /\ life' = life]_vars

C25_Witness ==
  /\ life.closed /\ AllExited
  /\ \A k \in LoopKinds : life.loop[k][1] = "exited"

\* C28: after a restart() only the threads that restart() started go on: a
\* thread of an earlier start() does not begin another round.  (Checked
\* under SpecLoops.)
C28_OldWorkersStop ==
  [][\A k \in LoopKinds, g \in TimeoutWorkers :
       (life.loop[k][g] = "sleep" /\ life'.loop[k][g] = "body") => g = Restarts + 1]_vars

(***************************************************************************)
(* SpecIngress: the two ingress transports, one whole request or frame per  *)
(* step.  A body is the bytes received: whether they decode as text, and    *)
(* what the text is (a JSON object, or not JSON at all).  call records the  *)
(* handler, the body and the HTTP status line sent, if any.                 *)
(***************************************************************************)
ingressRest == <<command_subscribers, now, stack, pubs, seen, completed, wpc, wake, tnow,
                 tlast, tdev, pdev, pwake, rpc, rcmd, probes, timeouts, verdict, since,
                 behaved, fpc, job, life>>

IngressBodies ==
  {[decodes |-> u, json |-> j, cmd |-> c] :
     u \in BOOLEAN, j \in BOOLEAN, c \in {Cmd("health", "A", None),
                                          Cmd("fileName", None, "take_01")}}

\* json.loads(raw): the bytes are decoded, then the text is parsed
JsonLoads(body) ==
  IF ~body.decodes THEN [err |-> "UnicodeDecodeError", value |-> NoCmd]
  ELSE IF ~body.json THEN [err |-> "JSONDecodeError", value |-> NoCmd]
  ELSE [err |-> None, value |-> body.cmd]

\* do_POST lines 262-271: 200 after the publish, 400 in the except branch
\* for json.JSONDecodeError; any other exception leaves do_POST
HttpStatus(parsed) ==
  IF parsed.err = None THEN "200"
  ELSE IF parsed.err = "JSONDecodeError" THEN "400"
  ELSE None

\* _notify_command(cmd) from an ingress handler, or nothing
IngressPublish(parsed) ==
  IF parsed.err = None
  THEN \E r \in {PublishAll(parsed.value, device_states, last_health_response,
                            device_vars, {})} :
         /\ device_states' = r.st
         /\ last_health_response' = r.last
         /\ last_filename' = RememberFilename(parsed.value, last_filename)
         /\ adapter_log' = r.msgs
         /\ ev' = Mark(r.cmds, << >>)
  ELSE /\ ev' = Mark(<< >>, << >>)
       /\ adapter_log' = {}
       /\ UNCHANGED <<device_states, last_health_response, last_filename>>

\* Handler.do_POST
DoPost(body) ==
  /\ call' = [fn |-> "do_POST", body |-> body, status |-> HttpStatus(JsonLoads(body))]
  /\ IngressPublish(JsonLoads(body))
  /\ UNCHANGED <<device_vars, zc_services, ingressRest>>

\* _ws_handler lines 306-311, one frame: the bare except ignores any failure
WsFrame(body) ==
  /\ call' = [fn |-> "_ws_handler", body |-> body, status |-> None]
  /\ IngressPublish(JsonLoads(body))
  /\ UNCHANGED <<device_vars, zc_services, ingressRest>>

NextIngress ==
  \/ \E body \in IngressBodies : DoPost(body)
  \/ \E body \in IngressBodies : WsFrame(body)
  \/ \E d \in Devices : EvDnsUp(d, Ip1)
  \/ \E d \in Devices : EvDnsFail(d)

SpecIngress == Init /\ [][NextIngress]_vars

\* C26: a body or frame that parses is published exactly once, and HTTP
\* answers 200; one that does not parse publishes nothing, changes no
\* registry state, and HTTP answers 400.
C26_IngressParsesOrIgnores ==
  [][call' # call =>
       IF JsonLoads(call'.body).err = None
       THEN /\ Cardinality({i \in 1..Len(ev'.cmds) : ev'.cmds[i] = call'.body.cmd}) = 1
            /\ call'.fn = "do_POST" => call'.status = "200"
       ELSE /\ ev'.cmds = << >>
            /\ device_states' = device_states
            /\ last_health_response' = last_health_response
            /\ call'.fn = "do_POST" => call'.status = "400"]_vars

\* C27: when the service starts, a device's checked flag is the value of
\* the checked key of its configuration entry, and true when the entry has
\* none.  (Checked under SpecCalls.)
C27_CheckedFromConfig ==
  call.fn = "__main__" => \A d \in Devices : call.checked[d] = (call.keys[d] # JFalse)

(***************************************************************************)
(* SpecTimeout: the timeout tick's publication, whole, among the events     *)
(* that give devices an endpoint.                                           *)
(***************************************************************************)

\* _health_timeout_loop lines 348-358 for device d when its grace period
\* has passed: reachable cleared, the stamp reset, health_timeout published
EvTimeout(d) ==
  /\ TickEligible(device_states[d])
  /\ \E r \in {PublishAll(Cmd("health_timeout", None, ConfigOf(d).hostname),
                          [device_states EXCEPT ![d].reachable = FALSE],
                          [last_health_response EXCEPT ![d] = now], device_vars, {})} :
       /\ device_states' = r.st
       /\ last_health_response' = r.last
       /\ adapter_log' = r.msgs
       /\ ev' = Mark(r.cmds, << >>)
  /\ UNCHANGED <<last_filename, device_vars, zc_services, eventRest>>

NextTimeout ==
  \/ \E d \in Devices : EvTimeout(d)
  \/ \E d \in Devices : EvDnsUp(d, Ip1)
  \/ \E d \in Devices : EvDnsFail(d)
  \/ \E d \in Devices : EvToggle(d, {})
  \/ EvZcAdded(SvcA, Ip1, Port1)

SpecTimeout == Init /\ [][NextTimeout]_vars

\* C29: when an adapter raises while a broadcast command is delivered, the
\* other ticked devices with ip and port still receive the command.
\* (Checked under SpecDispatch.)
C29_BroadcastSurvivesRaise ==
  (ev.cmds # << >> /\ ev.cmds[1].type \in BroadcastTypes /\ ev.raised # {})
    => \A d \in Devices :
         Eligible(d, device_states, device_vars)
           => \E m \in adapter_log : m.adapter = d /\ m.id = 1 /\ m.via = "broadcast"

\* C30: the health_timeout of device d, which names d by its hostname in
\* value, reaches d's adapter and no other, when d is ticked and has ip and
\* port.  (Checked under SpecTimeout.)
C30_TimeoutReachesOwnAdapter ==
  (ev.cmds # << >> /\ ev.cmds[1].type = "health_timeout")
    => \A d \in Devices :
         (ev.cmds[1].value = ConfigOf(d).hostname
            /\ Eligible(d, device_states, device_vars))
           => {m.adapter : m \in {x \in adapter_log : x.id = 1}} = {d}

(***************************************************************************)
(* Claims about the check box, the registry's frame and the service table,  *)
(* checked under SpecDispatch and SpecDiscovery.                            *)
(***************************************************************************)

\* C31: the adapter of a device whose box is unticked receives nothing:
\* every message handed to an adapter in a step goes to a device whose box
\* is ticked after that step, whether broadcast, targeted or replayed.
C31_UncheckedReceivesNothing ==
  \A m \in adapter_log : device_vars[m.adapter]

\* C32: the registry's checked flag of a device changes only in a step in
\* which the user flips a check box (set_device_filter); publishes, replies,
\* DNS events and mDNS announcements leave every checked flag as it was.
C32_CheckedOnlyByFilter ==
  [][device_vars' = device_vars
       => \A d \in Devices : device_states'[d].checked = device_states[d].checked]_vars

\* an mDNS service matching d has been announced
MdnsMatched(d) == \E svc \in ev.announced : CheckZcInDevices(svc) = d

\* C33: a device has a port only after an mDNS service matched it, and the
\* dispatcher delivers broadcast and targeted commands only to such devices:
\* a device known through DNS alone has no port and receives neither.
C33_PortOnlyFromMdns ==
  /\ \A d \in Devices : PortTruthy(device_states[d].port) => MdnsMatched(d)
  /\ \A m \in adapter_log : m.via \in {"broadcast", "target"} => MdnsMatched(m.adapter)

\* the service names the table _zc_services holds a record of
HeldServices == {e.cmd.name : e \in zc_services}

\* C34: announcing a service records it and keeps the record of every
\* other service: after an Added or Updated the table holds the announced
\* name and all the names it held before.
C34_OneEntryPerService ==
  [][(ev'.cmds # << >> /\ ev'.cmds[1].type = "zeroconf")
       => /\ ev'.cmds[1].name \in HeldServices'
          /\ HeldServices \subseteq HeldServices']_vars

\* this step notifies a device event for d, which had an endpoint already
EventOnConnected(d) ==
  /\ ev.endpoint[d] # NoAddr
  /\ \E i \in 1..Len(ev'.devs) : ev'.devs[i].name = d

\* C35: a device event for a device that already had an endpoint (an
\* mDNS Updated, a changed address, a DNS event after an mDNS event) hands
\* no replay of the cached fileName to its adapter.
C35_ReplayOnlyOnConnect ==
  [][\A d \in Devices : EventOnConnected(d) => Replays(d) = {}]_vars

\* the positions of _on_internal_command in the command subscriber list
InternalRegistrations ==
  {i \in 1..Len(command_subscribers) : command_subscribers[i] = "_on_internal_command"}

\* C36: restart() leaves the command subscriber list as the startup made
\* it, with _on_internal_command registered exactly once.
C36_SubscribersSurviveRestart ==
  /\ command_subscribers = Subscribers
  /\ Cardinality(InternalRegistrations) = 1

(***************************************************************************)
(* The dispatcher's enriched copies, with the dicts kept as functions from  *)
(* their keys and the objects kept apart: "c" is the published command,     *)
(* and the copy built for a device is the object named after that device.   *)
(***************************************************************************)
\* {**a, k: v, ...} and d[k] = v: the keys of b are set, the rest stay
DictMergeKeep(a, b) ==
  [k \in (DOMAIN a) \cup (DOMAIN b) |-> IF k \in DOMAIN a THEN a[k] ELSE b[k]]
DictMerge(a, b) ==
  [k \in (DOMAIN a) \cup (DOMAIN b) |-> IF k \in DOMAIN b THEN b[k] ELSE a[k]]

\* lines 765-767 and 791-793: enriched = { **cmd, "ip": ip, "port": port },
\* then enriched["sub_ip"] = state.get("sub_ip")
Enrich(cmd, state) ==
  DictMerge(DictMerge(cmd, [ip |-> state.ip, port |-> state.port]),
            [sub_ip |-> state.sub_ip])

\* PluginManager.handle lines 41-45: msg['subname'] is set on the object
\* handle was given
HandleMsg(heap, ref, d) ==
  IF ConfigOf(d).subname # ""
  THEN [heap EXCEPT ![ref] = DictMerge(@, [subname |-> ConfigOf(d).subname])]
  ELSE heap

\* the devices _dispatch_to_plugins delivers cmd to, in order
DispatchTargets(cmd, st, dvars) ==
  IF DispatchDrops(cmd) THEN << >>
  ELSE IF cmd.type \in BroadcastTypes THEN BroadcastOrder(1, st, dvars)
  ELSE IF TargetDelivers(cmd, st, dvars) THEN <<Target(cmd)>>
  ELSE << >>

\* the objects after the deliveries to targets[i..]: each delivery builds the
\* enriched copy and passes it to handle
RECURSIVE DispatchHeap(_, _, _, _)
DispatchHeap(heap, targets, i, st) ==
  IF i > Len(targets) THEN heap
  ELSE LET d == targets[i]
           h1 == DictMerge(heap, [x \in {d} |-> Enrich(heap["c"], st[d])])
       IN DispatchHeap(HandleMsg(h1, d, d), targets, i + 1, st)

\* the commands posted with fields of the names the dispatcher sets
ForgedIp == <<"6.6.6.6">>
ForwardCommands ==
  { [type |-> "fileName", device |-> None, value |-> "take_01"],
    [type |-> "fileName", device |-> None, value |-> "take_01",
     ip |-> ForgedIp, port |-> "9", sub_ip |-> ForgedIp],
    [type |-> "setPath", device |-> "B", value |-> "path", ip |-> ForgedIp],
    [type |-> "health", device |-> "A", value |-> None, port |-> "9",
     sub_ip |-> ForgedIp, subname |-> "forged"] }

\* Handler.do_POST with such a command: the whole fan-out, and the objects
\* the dispatcher built from the registry it read
EvForward(cmd) ==
  \E r \in {PublishAll(cmd, device_states, last_health_response, device_vars, {})} :
  \E r1 \in {OnInternalCommand(cmd, device_states, last_health_response, now)} :
  \E targets \in {DispatchTargets(cmd, r1.st, device_vars)} :
    /\ device_states' = r.st
    /\ last_health_response' = r.last
    /\ last_filename' = RememberFilename(cmd, last_filename)
    /\ adapter_log' = r.msgs
    /\ ev' = Mark(r.cmds, << >>)
    /\ call' = [fn |-> "dispatch", cmd |-> cmd, st |-> r1.st, targets |-> targets,
                heap |-> DispatchHeap([x \in {"c"} |-> cmd], targets, 1, r1.st)]
    /\ UNCHANGED <<device_vars, zc_services, command_subscribers, now, stack, pubs, seen,
                   completed, wpc, wake, tnow, tlast, tdev, pdev, pwake, rpc, rcmd,
                   probes, timeouts, verdict, since, behaved, fpc, job, life>>

\* _dns_poll_loop lines 143-156 for one device: the sub-device resolves to a
\* new address
EvDnsSub(d, ip) ==
  /\ ConfigOf(d).subname # ""
  /\ ip # device_states[d].sub_ip
  /\ device_states' = [device_states EXCEPT ![d].sub_ip = ip]
  /\ adapter_log' = {}
  /\ ev' = Mark(<<DiscoveryCmd("dns_sub", d, ip, None)>>, << >>)
  /\ UNCHANGED <<last_health_response, device_vars, last_filename, zc_services,
                 eventRest>>

\* SpecForward: posted commands while the registry fills
NextForward ==
  \/ \E cmd \in ForwardCommands : EvForward(cmd)
  \/ \E d \in Devices : EvDnsUp(d, Ip1)
  \/ \E d \in Devices : EvDnsSub(d, SubIp1)
  \/ \E d \in Devices : EvToggle(d, {})
  \/ EvZcAdded(SvcA, Ip1, Port1)

SpecForward == Init /\ [][NextForward]_vars

\* the keys the dispatcher and the plugin host set
SetKeys == {"ip", "port", "sub_ip", "subname"}

\* C37: every copy the dispatcher hands to an adapter carries the
\* registry's ip, port and sub_ip of that device as read at dispatch, whatever
\* the published command says under those keys, and the command's other
\* keys as published; the published command itself is left as it was.
C37_EnrichedFromRegistry ==
  call.fn = "dispatch" =>
    /\ call.heap["c"] = call.cmd
    /\ DOMAIN call.heap = {"c"} \cup {call.targets[i] : i \in 1..Len(call.targets)}
    /\ \A i \in 1..Len(call.targets) :
         LET d == call.targets[i]
             m == call.heap[d]
         IN /\ m["ip"] = call.st[d].ip
            /\ m["port"] = call.st[d].port
            /\ m["sub_ip"] = call.st[d].sub_ip
            /\ \A k \in (DOMAIN call.cmd) \ SetKeys : m[k] = call.cmd[k]

\* a command posted with its own ip, port and sub_ip was delivered to a
\* device whose registry holds an ip, a port and a sub_ip
C37_Witness ==
  /\ call.fn = "dispatch"
  /\ \E i \in 1..Len(call.targets) :
       LET d == call.targets[i]
       IN /\ {"port", "sub_ip"} \subseteq DOMAIN call.cmd
          /\ call.st[d].sub_ip # NoAddr
          /\ call.heap[d]["sub_ip"] = call.st[d].sub_ip
          /\ call.heap[d]["port"] = call.st[d].port
          /\ call.heap[d]["port"] # call.cmd["port"]

(***************************************************************************)
(* The probe loop beside the events that change what it reads: one device   *)
(* of its for loop per step, the publish with its whole fan-out.            *)
(***************************************************************************)
\* _health_loop lines 322-328 for the device at pdev, whose state the loop
\* reads now; the adapters in R raise on delivery
EvProbe(R) ==
  LET d == expected[pdev].attached_name
      cmd == Cmd("health", d, None)
  IN /\ pdev <= Len(expected)
     /\ pdev' = pdev + 1
     /\ IF ProbeEligible(device_states[d])
        THEN \E r \in {PublishAll(cmd, device_states, last_health_response,
                                  device_vars, R)} :
               /\ device_states' = r.st
               /\ last_health_response' = r.last
               /\ adapter_log' = r.msgs
               /\ ev' = [Mark(r.cmds, << >>) EXCEPT !.raised = Raisers(r.msgs, R)]
               /\ call' = [fn |-> "probe", device |-> d, state |-> device_states[d],
                           cmds |-> r.cmds]
        ELSE /\ adapter_log' = {}
             /\ ev' = Mark(<< >>, << >>)
             /\ call' = [fn |-> "probe", device |-> d, state |-> device_states[d],
                         cmds |-> << >>]
             /\ UNCHANGED <<device_states, last_health_response>>
     /\ UNCHANGED <<device_vars, last_filename, zc_services, command_subscribers, now,
                    stack, pubs, seen, completed, wpc, wake, tnow, tlast, tdev, pwake,
                    rpc, rcmd, probes, timeouts, verdict, since, behaved, fpc, job, life>>

\* line 329: time.sleep(self._health_interval), then the next round
EvProbeSleep ==
  /\ pdev > Len(expected)
  /\ pdev' = 1
  /\ adapter_log' = {}
  /\ ev' = Mark(<< >>, << >>)
  /\ UNCHANGED <<regVars, stack, pubs, seen, completed, wpc, wake, tnow, tlast, tdev,
                 pwake, rpc, rcmd, probes, timeouts, verdict, since, behaved, fpc, call,
                 job, life>>

\* SpecProbe: the probe loop while devices come, go and are ticked
NextProbe ==
  \/ \E R \in RaiseSets : EvProbe(R)
  \/ EvProbeSleep
  \/ \E d \in Devices : EvDnsUp(d, Ip1)
  \/ \E d \in Devices : EvDnsFail(d)
  \/ \E d \in Devices : EvToggle(d, {})
  \/ EvZcAdded(SvcA, Ip1, Port1)

SpecProbe == Init /\ [][NextProbe]_vars

\* the health commands for d among cmds
HealthFor(cmds, d) ==
  {i \in 1..Len(cmds) : cmds[i].type = "health" /\ cmds[i].device = d}

IdleTimeout == 5
OverallCap == 30

\* bounds of the model: frames received at one clock reading, and the clock
MaxBurst == 2
MaxClock == 40

\* the adapters that pump after a non-health command
PumpKinds == {"shogun", "obs"}

\* what ws.recv() can return: a JSON object, other JSON, a line that is not
\* JSON, bytes that do not decode
PumpFrames == {"object", "array", "text", "binary"}

\* line 99: if (now - last_rx) > idle_timeout or (now - started) > overall_cap
PumpExpiredIdleOnly(t, last_rx, started) == (t - last_rx) > IdleTimeout
PumpExpired(t, last_rx, started) ==
  (t - last_rx) > IdleTimeout \/ (t - started) > OverallCap

\* `async with websockets.connect(uri) as ws` is left: the socket is closed
PumpClosed(j, how) == [j EXCEPT !.pc = "closed", !.opened = FALSE, !.how = how]

\* the payload of a non-health command was sent: _pump_incoming(ws, device)
\* starts, lines 94-96
PumpEnter(k) ==
  /\ job = NoJob
  /\ job' = [pc |-> "top", kind |-> k, opened |-> TRUE, started |-> 0, last_rx |-> 0,
             clock |-> 0, burst |-> 0, forwarded |-> None, how |-> None]
  /\ UNCHANGED adapterRest

\* lines 97-100: the deadlines are tested at the top of every round
PumpTop ==
  /\ job.pc = "top"
  /\ job' = IF PumpExpired(job.clock, job.last_rx, job.started)
            THEN PumpClosed(job, "deadline")
            ELSE [job EXCEPT !.pc = "recv"]
  /\ UNCHANGED adapterRest

\* lines 102-113: a frame arrives dt seconds into the wait; an object is
\* forwarded, a JSONDecodeError is swallowed, any other exception leaves the
\* pump and is caught by _send_to_*
PumpFrame(dt, frame) ==
  /\ job.pc = "recv"
  /\ job.clock + dt <= MaxClock
  /\ dt = 0 => job.burst < MaxBurst
  /\ job' = IF frame = "binary"
            THEN PumpClosed([job EXCEPT !.clock = @ + dt], "error")
            ELSE [job EXCEPT !.pc = "top", !.clock = @ + dt, !.last_rx = job.clock + dt,
                             !.burst = IF dt = 0 THEN @ + 1 ELSE 0,
                             !.forwarded = IF frame = "object" THEN frame ELSE @]
  /\ UNCHANGED adapterRest

\* lines 115-116: asyncio.TimeoutError after idle_timeout seconds without a frame
PumpIdle ==
  /\ job.pc = "recv"
  /\ job' = PumpClosed([job EXCEPT !.clock = @ + IdleTimeout], "idle")
  /\ UNCHANGED adapterRest

\* ws.recv() raises because the connection was closed
PumpFail ==
  /\ job.pc = "recv"
  /\ job' = PumpClosed(job, "error")
  /\ UNCHANGED adapterRest

\* a step of the pump that the event loop takes by itself
PumpStep ==
  \/ PumpTop
  \/ \E dt \in 0..IdleTimeout, frame \in PumpFrames : PumpFrame(dt, frame)
  \/ PumpIdle
  \/ PumpFail

NextPump ==
  \/ \E k \in PumpKinds : PumpEnter(k)
  \/ PumpTop
  \/ \E dt \in 0..IdleTimeout, frame \in PumpFrames : PumpFrame(dt, frame)
  \/ PumpIdle
  \/ PumpFail

\* the event loop runs the coroutine; wait_for ends every wait
SpecPump == Init /\ [][NextPump]_vars /\ WF_vars(PumpStep)

\* the pump is running
Pumping == job.pc \in {"top", "recv"}

\* C39: the pump always ends and the socket is closed then: it never waits
\* for a frame once the overall deadline has passed, a wait ends after the
\* idle deadline at the latest, and a device that keeps sending frames cannot
\* keep it running.
C39_PumpTerminates ==
  /\ [](job.pc = "recv" => (job.clock - job.started) <= OverallCap)
  /\ [](job.pc = "closed" =>
         /\ ~job.opened
         /\ job.clock - job.started <= OverallCap + IdleTimeout)
  /\ (Pumping ~> job.pc = "closed")

\* the device kept sending frames and the pump ended on its overall deadline
C39_Witness ==
  /\ job.pc = "closed" /\ job.how = "deadline" /\ ~job.opened
  /\ job.clock - job.started > OverallCap
  /\ job.last_rx = job.clock

(***************************************************************************)
(* unrealServer.py: the upstream bridge's handle_message as a function of   *)
(* the front-end's message, one call per behaviour.                         *)
(***************************************************************************)
\* the JSON values the front-end can send: objects with any of the five keys
\* the bridge reads ('' and None stand for what msg.get returns for a missing
\* key), and a value that is not an object
UeMessages ==
  {[isdict |-> TRUE, set |-> st, handler |-> h, data |-> dt, value |-> v, glos |-> g] :
     st \in {"", "startRecord", "stopRecord", "broadcastGlos", "fileName", "ping",
             "other"},
     h \in {"", "startCapture", "stopCapture", "glosName", "take_07"},
     dt \in {"", "startCapture", "stopCapture", "broadcastGlos"},
     v \in {None, "", "v"},
     g \in {None, "", "g"}}
  \cup {[isdict |-> FALSE, set |-> "", handler |-> "", data |-> "", value |-> None,
         glos |-> None]}

\* the dict passed to send_message
UeCmd(type, value) == [type |-> type, value |-> value]

\* line 35
UeIsStartNever(msg) == FALSE
UeIsStart(msg) ==
  msg.handler = "startCapture" \/ msg.data = "startCapture" \/ msg.set = "startRecord"

\* line 40
UeIsStop(msg) ==
  msg.handler = "stopCapture" \/ msg.data = "stopCapture" \/ msg.set = "stopRecord"

\* line 66: name = value or glos
UeName(msg) == IF PyBool(msg.value) THEN msg.value ELSE msg.glos

\* handle_message lines 25-81: the dicts passed to send_message, in order;
\* msg.get on a value that is not a dict raises before anything is sent
UeHandleMessage(msg) ==
  IF ~msg.isdict THEN << >>
  ELSE IF UeIsStart(msg) THEN <<UeCmd("recordStart", "starting the recording")>>
  ELSE IF UeIsStop(msg) THEN <<UeCmd("recordStop", "stopping the recording")>>
  ELSE IF msg.data = "broadcastGlos" /\ PyBool(msg.glos)
       THEN <<UeCmd("fileName", msg.glos)>>
  ELSE IF msg.set = "broadcastGlos" /\ PyBool(msg.value)
       THEN <<UeCmd("fileName", msg.value)>>
  ELSE IF msg.set = "fileName" /\ PyBool(msg.value)
       THEN <<UeCmd("fileName", msg.value)>>
  ELSE IF msg.handler = "glosName" /\ PyBool(UeName(msg))
       THEN <<UeCmd("fileName", UeName(msg))>>
  ELSE IF msg.set = "broadcastGlos" /\ PyBool(msg.handler)
       THEN <<UeCmd("fileName", msg.handler)>>
  ELSE << >>

\* send_message lines 12-15: the command arrives when the listener accepts
\* the connection, otherwise connect raises
UeSent(cmds, up) == IF up THEN cmds ELSE << >>

CallUeHandleMessage(msg, up) ==
  /\ call = NoCall
  /\ call' = [fn |-> "handle_message", msg |-> msg, up |-> up,
              passed |-> UeHandleMessage(msg),
              sent |-> UeSent(UeHandleMessage(msg), up)]
  /\ UNCHANGED callRest

NextBridge == \E msg \in UeMessages, up \in BOOLEAN : CallUeHandleMessage(msg, up)

SpecBridge == Init /\ [][NextBridge]_vars

\* the shapes of the front-end's messages: start, stop, file name
StartShape(m) ==
  m.isdict /\ ("startCapture" \in {m.handler, m.data} \/ m.set = "startRecord")
StopShape(m) ==
  m.isdict /\ ("stopCapture" \in {m.handler, m.data} \/ m.set = "stopRecord")
FileShape(m) ==
  /\ m.isdict
  /\ \/ m.data = "broadcastGlos" /\ m.glos \notin {None, ""}
     \/ m.set \in {"broadcastGlos", "fileName"} /\ m.value \notin {None, ""}
     \/ m.handler = "glosName" /\ (m.value \notin {None, ""} \/ m.glos \notin {None, ""})
     \/ m.set = "broadcastGlos" /\ m.handler # ""

====
